---- MODULE Spec2Model ----
(***************************************************************************)
(* GamingVision training tool: the four-step pipeline of                   *)
(* scripts/01_train_pipeline.py (clean, split, train, export) and the      *)
(* merge of the class list into game_config.json done by its export step.  *)
(***************************************************************************)
EXTENDS Integers, Sequences, FiniteSets, TLC

(***************************************************************************)
(* Bounds of the model.                                                    *)
(***************************************************************************)
\* longest class list read from classes.txt
MaxClasses == 2
\* most label entries in a game_config.json before the first export
MaxLabels == 1
\* most names in one tier list of a game_config.json before the first export
MaxTier == 1
\* most consecutive exports with an unchanged classes.txt that are counted
MaxRepeat == 2
\* the last second the clock reaches
MaxClock == 2
\* most export invocations that follow each other, and most splits
MaxRuns == 2
\* most image files in IMAGES_DIR when the split alone is looked at
MaxImages == 3

\* the options given on one command line, at most
MaxOptions == 2

(***************************************************************************)
(* Data.                                                                   *)
(***************************************************************************)
ClassNameSet == {"ammo", "crate"}
Descriptions == {"", "loot"}

Range(s) == {s[i] : i \in DOMAIN s}

SeqsUpTo(S, n) == UNION {[1..k -> S] : k \in 0..n}

NoDupSeqsUpTo(S, n) == {s \in SeqsUpTo(S, n) : Cardinality(Range(s)) = Len(s)}

\* the lists get_class_names can return: the stripped non-empty lines of
\* classes.txt, in file order, repeated lines kept
ClassLists == SeqsUpTo(ClassNameSet, MaxClasses)

\* an artifact file name f"{MODEL_NAME}_v{version}_{size}.onnx"; version 0 is
\* a stamp older than every export of the model
ArtifactName(version, size) == [version |-> version, size |-> size, ext |-> "onnx"]

OldModelFile == ArtifactName(0, 640)

LabelEntry(name, description) == [name |-> name, description |-> description]

GameConfigKeys == {"modelFile", "labels", "primaryLabels", "secondaryLabels", "tertiaryLabels"}

\* A game_config.json, as json.load returns it. `keys` holds the keys the
\* object has; a list key that is absent has the empty list as its field.
GameConfig(keys, modelFile, labels, primary, secondary, tertiary) ==
    [keys |-> keys, modelFile |-> modelFile, labels |-> labels,
     primaryLabels |-> primary, secondaryLabels |-> secondary,
     tertiaryLabels |-> tertiary]

ListKeysOf(labels, primary, secondary, tertiary) ==
    (IF labels = <<>> THEN {} ELSE {"labels"})
    \cup (IF primary = <<>> THEN {} ELSE {"primaryLabels"})
    \cup (IF secondary = <<>> THEN {} ELSE {"secondaryLabels"})
    \cup (IF tertiary = <<>> THEN {} ELSE {"tertiaryLabels"})

\* the keys a document has besides those of its non-empty lists: the two the
\* merge looks for ("labels", "primaryLabels"), present or missing, or all
PresentKeys == SUBSET {"labels", "primaryLabels"} \cup {GameConfigKeys}

\* the documents found on disk before the first export: any label entries, any
\* tier lists (also overlapping ones: the file is edited by hand), any list
\* key present or missing
InitialGameConfigs ==
    UNION {
        {GameConfig(ks \cup ListKeysOf(ls, p, s, t) \cup {"modelFile"}, OldModelFile, ls, p, s, t) :
            ks \in PresentKeys} :
        ls \in SeqsUpTo([name : ClassNameSet, description : Descriptions], MaxLabels),
        p \in NoDupSeqsUpTo(ClassNameSet, MaxTier),
        s \in NoDupSeqsUpTo(ClassNameSet, MaxTier),
        t \in NoDupSeqsUpTo(ClassNameSet, MaxTier)}

(***************************************************************************)
(* step_export, lines 498-534: the merge of the deployed model and of the  *)
(* class list into the loaded game_config.json.                            *)
(***************************************************************************)
\* game_cfg.get(key, [])
GetList(cfg, key) == IF key \in cfg.keys THEN cfg[key] ELSE <<>>

\* existing_labels = {label.get("name") for label in game_cfg.get("labels", [])}
ExistingLabels(cfg) == {e.name : e \in Range(GetList(cfg, "labels"))}

\* a variant that looks at the primary tier alone
AllExistingTiersPrimaryOnly(cfg) == Range(GetList(cfg, "primaryLabels"))

\* all_existing_tiers = existing_primary | existing_secondary | existing_tertiary
AllExistingTiers(cfg) ==
    Range(GetList(cfg, "primaryLabels"))
    \cup Range(GetList(cfg, "secondaryLabels"))
    \cup Range(GetList(cfg, "tertiaryLabels"))

\* game_cfg["modelFile"] = f"{default_model}.onnx"
SetModelFile(cfg, default_model) ==
    [cfg EXCEPT !.modelFile = default_model, !.keys = @ \cup {"modelFile"}]

\* if "labels" not in game_cfg: ...; if "primaryLabels" not in game_cfg: ...
InitArrays(cfg) == [cfg EXCEPT !.keys = @ \cup {"labels", "primaryLabels"}]

\* a variant that appends the label entry without looking at existing_labels
AddClassAlways(cfg, class_name, existing_labels, all_existing_tiers) ==
    [cfg EXCEPT
        !.labels = Append(@, LabelEntry(class_name, "")),
        !.primaryLabels =
            IF class_name \notin all_existing_tiers THEN Append(@, class_name) ELSE @]

\* a variant that inserts in front instead of appending
AddClassInFront(cfg, class_name, existing_labels, all_existing_tiers) ==
    [cfg EXCEPT
        !.labels =
            IF class_name \notin existing_labels
            THEN <<LabelEntry(class_name, "")>> \o @ ELSE @,
        !.primaryLabels =
            IF class_name \notin all_existing_tiers THEN <<class_name>> \o @ ELSE @]

\* the body of `for class_name in class_names`
AddClass(cfg, class_name, existing_labels, all_existing_tiers) ==
    [cfg EXCEPT
        !.labels =
            IF class_name \notin existing_labels
            THEN Append(@, LabelEntry(class_name, "")) ELSE @,
        !.primaryLabels =
            IF class_name \notin all_existing_tiers THEN Append(@, class_name) ELSE @]

RECURSIVE AddNewClasses(_, _, _, _)
\* `for class_name in class_names`, with the two sets computed before the loop
AddNewClasses(cfg, class_names, existing_labels, all_existing_tiers) ==
    IF class_names = <<>> THEN cfg
    ELSE AddNewClasses(
            AddClass(cfg, Head(class_names), existing_labels, all_existing_tiers),
            Tail(class_names), existing_labels, all_existing_tiers)

\* the document json.dump writes back
MergeGameConfig(cfg, class_names, default_model) ==
    AddNewClasses(InitArrays(SetModelFile(cfg, default_model)), class_names,
                  ExistingLabels(cfg), AllExistingTiers(cfg))

(***************************************************************************)
(* The files the pipeline reads and writes.                                *)
(***************************************************************************)
File(stem, ext) == [stem |-> stem, ext |-> ext]

\* the image files that may lie in IMAGES_DIR
ImageFiles == {File("a", "jpg"), File("b", "jpeg")}

\* an image of IMAGES_DIR: not there; there without an annotation file; there
\* with an all-whitespace annotation file; there with a non-empty one
ImageStates == {"absent", "unlabeled", "blank", "labeled"}

LabelOf(img) == File(img.stem, "txt")

\* what train/ and val/ may hold when the pipeline starts: nothing, or the
\* files of an earlier split
NoSplit == [trainImages |-> {}, trainLabels |-> {}, valImages |-> {}, valLabels |-> {}]

\* no split was made yet
NoManifest == [train_images |-> {}, val_images |-> {}]

StaleSplit ==
    [trainImages |-> {File("a", "jpg")}, trainLabels |-> {File("a", "txt")},
     valImages |-> {File("b", "jpeg")}, valLabels |-> {File("b", "txt")}]

WeightFiles == {"best.pt", "last.pt"}

\* the game_config.json files a pipeline run may find in GAME_MODELS_DIR
PipelineGameConfigs ==
    {GameConfig({"modelFile"}, OldModelFile, <<>>, <<>>, <<>>, <<>>),
     GameConfig(GameConfigKeys, OldModelFile, <<LabelEntry("ammo", "loot")>>,
                <<>>, <<"ammo">>, <<>>)}

\* the classes.txt files a pipeline run may find: none, or one of these lists
PipelineClassLists == {<<"ammo", "crate">>}

(***************************************************************************)
(* State.                                                                  *)
(***************************************************************************)
VARIABLES
    skip_to,          \* args.skip_to
    AUTO_YES,         \* the global set from --auto-yes
    fineTuneMissing,  \* --fine-tune-model-path names a file that does not exist
    script,           \* the entry point that runs: "pipeline", "export_model" or "train_model"
    argSize,          \* export_model.py's args.size, 0 when --size is not given
    run,              \* history: the number of this invocation
    pc,               \* where the run is
    step,             \* the step main is at (1..4), 5 after the last
    success,          \* main's local
    exitCode,         \* the exit status of the process, once it has ended
    trace,            \* what the run did so far, in order
    rawData,          \* IMAGES_DIR and LABELS_DIR: the state of each image
    classes,          \* CLASSES_FILE: [exists, names]
    trainImages, trainLabels, valImages, valLabels,   \* the four split folders
    datasetYaml,      \* DATASET_YAML exists
    manifest,         \* history: the images of train_images and val_images
                      \*          in the last step_split that returned True
    weights,          \* the files of runs/detect/<game>_model/weights
    clock,            \* datetime.now(), in seconds
    version,          \* step_export's version stamp
    sizeIdx,          \* step_export's position in export_sizes
    deployed_models,  \* step_export's list of (version, size) deployed
    gameModels,       \* the files of GAME_MODELS_DIR but game_config.json
    writer,           \* history: the invocation that wrote each of them last
    configExists,     \* GAME_MODELS_DIR/game_config.json exists
    configIntact,     \* it holds a complete JSON document
    gameCfg,          \* its content
    cfgBefore,        \* history: the content before the last merge
    mergedClasses,    \* history: the class list of the last merge
    cfgFirst,         \* history: the content after the first of the merges
                      \*          with that class list that followed each other
    nSame,            \* history: how many such merges there were
    runtime_config,   \* config._runtime_config
    config,           \* the module-level values of config.py
    TRAINING_CONFIG,  \* config.TRAINING_CONFIG
    parsed,           \* the namespace parse_args returned
    supplied,         \* history: for each field of RuntimeConfig, the value
                      \*          given last to apply_config_overrides
    cwd,              \* the working directory of the process
    used,             \* the paths a script that runs on its own has named
    twin              \* a second process that makes the same calls: its
                      \* working directory, _runtime_config and values

resolved == <<runtime_config, config, TRAINING_CONFIG, parsed, supplied, cwd, used, twin>>
args == <<skip_to, AUTO_YES, fineTuneMissing, script, argSize, run, resolved>>
ctl == <<pc, step, success, exitCode, trace>>
rawFs == <<rawData, classes>>
splitFs == <<trainImages, trainLabels, valImages, valLabels, datasetYaml, manifest>>
exportLocals == <<version, sizeIdx, deployed_models>>
exportFs == <<gameModels, writer, configExists, configIntact, gameCfg>>
mergeHist == <<cfgBefore, mergedClasses, cfgFirst, nSame>>

vars == <<args, ctl, rawFs, splitFs, weights, clock, exportLocals, exportFs, mergeHist>>

StepName(n) ==
    CASE n = 1 -> "Clean" [] n = 2 -> "Split" [] n = 3 -> "Train" [] n = 4 -> "Export"

\* an entry of trace
Event(ev, n, ok, input, names) ==
    [ev |-> ev, n |-> n, ok |-> ok, input |-> input, names |-> names]

\* step function n was called
Called(n) == Event("call", n, TRUE, FALSE, {})
\* prompt_yes_no returned `answer` at the gate of step n (0: "Begin pipeline?"),
\* having read the input or not
Prompted(n, answer, input) == Event("prompt", n, answer, input, {})
\* print_error inside step n, naming these paths
Error(n, names) == Event("error", n, FALSE, FALSE, names)
\* print_warning inside step n, naming these paths
Warning(n, names) == Event("warning", n, TRUE, FALSE, names)
\* the engine was invoked by step n (3: train, 4: export)
Engine(n) == Event("engine", n, TRUE, FALSE, {})
\* step function n returned ok
Returned(n, ok) == Event("return", n, ok, FALSE, {})
\* main printed "Pipeline failed at step n (...)"
Failed(n) == Event("failed", n, FALSE, FALSE, {StepName(n)})

Log(events) == trace' = trace \o events

(***************************************************************************)
(* prompt_yes_no, lines 59-77.                                             *)
(***************************************************************************)
\* what the user may type at a prompt
RawResponses == {"", "y", "Y", " yes ", "n", "No", "maybe"}

\* input(...).strip().lower()
StripLower(raw) ==
    CASE raw = "Y" -> "y"
      [] raw = " yes " -> "yes"
      [] raw = "No" -> "no"
      [] OTHER -> raw

\* the responses that end the `while True` loop
Accepted(response) == response \in {"", "y", "yes", "n", "no"}

\* the value returned for an accepted response
AnswerTo(response, default) ==
    CASE response = "" -> default
      [] response \in {"y", "yes"} -> TRUE
      [] response \in {"n", "no"} -> FALSE

\* a variant that does not look at AUTO_YES
prompt_yes_no_always_asking(default) ==
    {[answer |-> AnswerTo(StripLower(raw), default), input |-> TRUE] :
        raw \in {r \in RawResponses : Accepted(StripLower(r))}}

\* the ways prompt_yes_no(message, default) can return: the answer, and
\* whether input() was read for it
prompt_yes_no(default) ==
    IF AUTO_YES
    THEN {[answer |-> default, input |-> FALSE]}
    ELSE {[answer |-> AnswerTo(StripLower(raw), default), input |-> TRUE] :
            raw \in {r \in RawResponses : Accepted(StripLower(r))}}

\* "Please enter 'y' or 'n'": the prompt is shown again
Reprompt ==
    /\ pc \in {"begin", "gate"}
    /\ ~AUTO_YES
    /\ \E raw \in RawResponses : ~Accepted(StripLower(raw))
    /\ UNCHANGED vars

(***************************************************************************)
(* main, lines 644-688.                                                    *)
(***************************************************************************)
\* a step function returns ok after these events
Return(n, ok, events) ==
    /\ pc' = "returned"
    /\ success' = ok
    /\ Log(events \o <<Returned(n, ok)>>)
    /\ UNCHANGED <<step, exitCode>>

\* if not prompt_yes_no("\nBegin pipeline?"): print("\nPipeline cancelled."); return
BeginGate ==
    /\ pc = "begin"
    /\ \E o \in prompt_yes_no(TRUE) :
        /\ Log(<<Prompted(0, o.answer, o.input)>>)
        /\ IF o.answer
           THEN pc' = "dispatch" /\ exitCode' = exitCode
           ELSE pc' = "cancelled" /\ exitCode' = 0
    /\ UNCHANGED <<step, success>>
    /\ UNCHANGED <<args, rawFs, splitFs, weights, clock, exportLocals, exportFs, mergeHist>>

\* a variant that forgets --skip-to
RunsStepFromOne(n) == success

\* `if args.skip_to <= n and success:`
RunsStep(n) == skip_to <= n /\ success

\* a variant that comes back to the same `if`
NextStepSame(n) == n

\* the `if` that follows the one of step n in the chain
NextStep(n) == n + 1

\* the chain of `if`s: the step is called or passed over; after the last one
\* main prints PIPELINE COMPLETE and returns
Dispatch ==
    /\ pc = "dispatch"
    /\ IF step = 5
       THEN pc' = "complete" /\ exitCode' = 0 /\ UNCHANGED <<step, trace>>
       ELSE IF RunsStep(step)
            THEN pc' = "check" /\ Log(<<Called(step)>>) /\ UNCHANGED <<step, exitCode>>
            ELSE pc' = pc /\ step' = NextStep(step) /\ UNCHANGED <<exitCode, trace>>
    /\ UNCHANGED success
    /\ UNCHANGED <<args, rawFs, splitFs, weights, clock, exportLocals, exportFs, mergeHist>>

\* a variant that goes on after a failure
HaltsNever(ok) == FALSE

\* a variant with the test inverted
HaltsOnSuccess(ok) == ok

\* `if not success:` after a step
Halts(ok) == ~ok

\* sys.exit(1)
FailureExitStatus == 1

\* success = step_x(); if not success: print_error("Pipeline failed at step n"); sys.exit(1)
AfterStep ==
    /\ pc = "returned"
    /\ IF Halts(success)
       THEN /\ Log(<<Failed(step)>>)
            /\ pc' = "halted"
            /\ exitCode' = FailureExitStatus
            /\ step' = step
       ELSE /\ pc' = "dispatch"
            /\ step' = NextStep(step)
            /\ UNCHANGED <<exitCode, trace>>
    /\ UNCHANGED success
    /\ UNCHANGED <<args, rawFs, splitFs, weights, clock, exportLocals, exportFs, mergeHist>>

\* a variant that treats a negative answer as a failure
DeclinedIsFailure == FALSE

\* `print("Skipping ... step."); return True` after a negative answer
DeclinedResult == TRUE

\* a variant that has removed the files of the folder before it asks
SkippedAfterRemoval(folder) == {}

\* `print("Skipping ... step."); return True`: a split folder when the step
\* is skipped
Skipped(folder) == folder

\* the confirmation gate of the step: "Clean train/val folders?", "Proceed
\* with split?", "Start training?", "Export model?"
Gate ==
    /\ pc = "gate"
    /\ \E o \in prompt_yes_no(TRUE) :
        IF o.answer
        THEN /\ pc' = "act"
             /\ Log(<<Prompted(step, TRUE, o.input)>>)
             /\ UNCHANGED <<step, success, exitCode>>
             /\ UNCHANGED <<trainImages, trainLabels, valImages, valLabels>>
        ELSE /\ Return(step, DeclinedResult, <<Prompted(step, FALSE, o.input)>>)
             /\ trainImages' = Skipped(trainImages)
             /\ trainLabels' = Skipped(trainLabels)
             /\ valImages' = Skipped(valImages)
             /\ valLabels' = Skipped(valLabels)
    /\ UNCHANGED <<datasetYaml, manifest>>
    /\ UNCHANGED <<args, rawFs, weights, clock, exportLocals, exportFs, mergeHist>>

(***************************************************************************)
(* step_clean, lines 114-163.                                              *)
(***************************************************************************)
\* count_files(directory, "*.ext")
count_files(directory, ext) == Cardinality({f \in directory : f.ext = ext})

CountImages(directory) == count_files(directory, "jpg") + count_files(directory, "png")

\* total = train_images + train_labels + val_images + val_labels
CleanTotal ==
    CountImages(trainImages) + count_files(trainLabels, "txt")
    + CountImages(valImages) + count_files(valLabels, "txt")

\* up to the gate: `if total == 0: print("\nNo files to clean."); return True`
CleanCheck ==
    /\ pc = "check" /\ step = 1
    /\ IF CleanTotal = 0
       THEN Return(1, TRUE, <<>>)
       ELSE pc' = "gate" /\ UNCHANGED <<step, success, exitCode, trace>>
    /\ UNCHANGED <<args, rawFs, splitFs, weights, clock, exportLocals, exportFs, mergeHist>>

\* the try block: rmtree(train_dir), rmtree(val_dir); either may raise with
\* its tree partly removed
CleanAct ==
    /\ pc = "act" /\ step = 1
    /\ \/ /\ trainImages' = {} /\ trainLabels' = {}
          /\ valImages' = {} /\ valLabels' = {}
          /\ Return(1, TRUE, <<>>)
       \/ /\ trainImages' \in SUBSET trainImages
          /\ trainLabels' \in SUBSET trainLabels
          /\ UNCHANGED <<valImages, valLabels>>
          /\ Return(1, FALSE, <<Error(1, {})>>)
       \/ /\ trainImages' = {} /\ trainLabels' = {}
          /\ valImages' \in SUBSET valImages
          /\ valLabels' \in SUBSET valLabels
          /\ Return(1, FALSE, <<Error(1, {})>>)
    /\ UNCHANGED <<datasetYaml, manifest>>
    /\ UNCHANGED <<args, rawFs, weights, clock, exportLocals, exportFs, mergeHist>>

(***************************************************************************)
(* step_split, lines 170-256, with get_labeled_images, clear_split_folders,*)
(* copy_files and create_dataset_yaml of split_dataset.py.                 *)
(***************************************************************************)
\* the files of IMAGES_DIR
RawImages == {f \in DOMAIN rawData : rawData[f] # "absent"}

\* the *.txt files of LABELS_DIR: the annotation files, and classes.txt,
\* which lies in the same folder
RawLabels ==
    {LabelOf(f) : f \in {g \in DOMAIN rawData : rawData[g] \in {"blank", "labeled"}}}
    \cup (IF classes.exists THEN {File("classes", "txt")} ELSE {})

\* up to the gate: the source data and classes.txt are looked for
SplitCheck ==
    /\ pc = "check" /\ step = 2
    /\ IF CountImages(RawImages) = 0
       THEN Return(2, FALSE, <<Error(2, {})>>)
       ELSE IF count_files(RawLabels, "txt") = 0
       THEN Return(2, FALSE, <<Error(2, {})>>)
       ELSE IF ~classes.exists
       THEN Return(2, FALSE, <<Error(2, {"classes.txt"})>>)
       ELSE pc' = "gate" /\ UNCHANGED <<step, success, exitCode, trace>>
    /\ UNCHANGED <<args, rawFs, splitFs, weights, clock, exportLocals, exportFs, mergeHist>>

\* the orders in which IMAGES_DIR.iterdir() may yield the files
Enumerations(files) ==
    {order \in [1..Cardinality(files) -> files] : Range(order) = files}

\* a variant that takes an all-whitespace annotation file for a label
IsLabeledOrBlank(f) ==
    f.ext \in {"jpg", "jpeg", "png"} /\ rawData[f] \in {"labeled", "blank"}

\* the suffix is an image suffix, and the same-stem annotation file exists and
\* is not empty once stripped
IsLabeled(f) == f.ext \in {"jpg", "jpeg", "png"} /\ rawData[f] = "labeled"

\* get_labeled_images, for one enumeration of the folder
get_labeled_images(order) == SelectSeq(order, IsLabeled)

\* random.seed(42); random.shuffle(x): the element put at each place of a
\* list of n elements
SeedShuffleOrder(n) ==
    CASE n = 0 -> <<>>
      [] n = 1 -> <<1>>
      [] n = 2 -> <<2, 1>>
      [] n = 3 -> <<2, 1, 3>>
      [] n = 4 -> <<3, 2, 4, 1>>
      [] n = 5 -> <<4, 2, 3, 5, 1>>
      [] n = 6 -> <<4, 2, 3, 5, 1, 6>>

Shuffle(list) == [i \in 1..Len(list) |-> list[SeedShuffleOrder(Len(list))[i]]]

\* TRAIN_RATIO = 0.8, in tenths
TrainRatioTenths == 8

\* a variant that rounds up
SplitIdxRoundedUp(n) == (n * TrainRatioTenths + 9) \div 10

\* split_idx = int(len(labeled_images) * TRAIN_RATIO)
SplitIdx(n) == (n * TrainRatioTenths) \div 10

\* a variant that lets the image at split_idx into both slices
ValSliceFromSplitIdx(list, split_idx) ==
    SubSeq(list, IF split_idx = 0 THEN 1 ELSE split_idx, Len(list))

\* train_images = labeled_images[:split_idx]
TrainSlice(list, split_idx) == SubSeq(list, 1, split_idx)

\* val_images = labeled_images[split_idx:]
ValSlice(list, split_idx) == SubSeq(list, split_idx + 1, Len(list))

\* the copies copy_files makes for image_names into the folders of `split`,
\* in order: each image, then its annotation file
CopyOps(image_names, split) ==
    [k \in 1..(2 * Len(image_names)) |->
        IF k % 2 = 1
        THEN [split |-> split, kind |-> "image", file |-> image_names[(k + 1) \div 2]]
        ELSE [split |-> split, kind |-> "label", file |-> LabelOf(image_names[k \div 2])]]

\* the files of one split folder after the first j copies
Copied(ops, j, split, kind) ==
    {ops[k].file : k \in {i \in 1..j : ops[i].split = split /\ ops[i].kind = kind}}

\* a variant that moves the file
SourceAfterMove(state) == "absent"

\* shutil.copy2(src, dst) leaves the source as it is
SourceAfterCopy(state) == state

\* IMAGES_DIR and LABELS_DIR after the first j copies
RawAfterCopies(ops, j) ==
    [f \in DOMAIN rawData |->
        IF \E k \in 1..j : ops[k].kind = "image" /\ ops[k].file = f
        THEN SourceAfterCopy(rawData[f])
        ELSE rawData[f]]

\* a variant that leaves in a folder what it held
clear_split_folders_keeping(folder) == folder

\* clear_split_folders, for one folder: rmtree, then mkdir
clear_split_folders(folder) == {}

\* the files of one split folder once it was cleared and the first j copies
\* were made
Materialized(folder, ops, j, split, kind) ==
    clear_split_folders(folder) \cup Copied(ops, j, split, kind)

\* a variant without the test
NoLabeledImagesIgnored(labeled_images) == FALSE

\* `if len(labeled_images) == 0:`
NoLabeledImages(labeled_images) == Len(labeled_images) = 0

\* the try block
SplitAct ==
    /\ pc = "act" /\ step = 2
    /\ \E labeled_images \in
            {get_labeled_images(order) : order \in Enumerations(RawImages)} :
        LET shuffled == Shuffle(labeled_images)
            split_idx == SplitIdx(Len(shuffled))
            train_images == TrainSlice(shuffled, split_idx)
            val_images == ValSlice(shuffled, split_idx)
            ops == CopyOps(train_images, "train") \o CopyOps(val_images, "val")
        IN  IF NoLabeledImages(labeled_images)
            THEN /\ Return(2, FALSE, <<Error(2, {})>>)
                 /\ UNCHANGED splitFs
                 /\ UNCHANGED rawData
            ELSE \/ \* every folder is cleared, every file copied, dataset.yaml written
                    /\ trainImages' = Materialized(trainImages, ops, Len(ops), "train", "image")
                    /\ trainLabels' = Materialized(trainLabels, ops, Len(ops), "train", "label")
                    /\ valImages' = Materialized(valImages, ops, Len(ops), "val", "image")
                    /\ valLabels' = Materialized(valLabels, ops, Len(ops), "val", "label")
                    /\ datasetYaml' = TRUE
                    /\ rawData' = RawAfterCopies(ops, Len(ops))
                    /\ manifest' = [train_images |-> Range(train_images),
                                    val_images |-> Range(val_images)]
                    /\ Return(2, TRUE, <<>>)
                 \/ \* clear_split_folders raises at one of the four folders
                    /\ \E k \in 1..4 :
                        /\ trainImages' \in
                            (IF k > 1 THEN {clear_split_folders(trainImages)}
                             ELSE SUBSET trainImages)
                        /\ trainLabels' \in
                            (IF k > 2 THEN {clear_split_folders(trainLabels)}
                             ELSE IF k = 2 THEN SUBSET trainLabels ELSE {trainLabels})
                        /\ valImages' \in
                            (IF k > 3 THEN {clear_split_folders(valImages)}
                             ELSE IF k = 3 THEN SUBSET valImages ELSE {valImages})
                        /\ valLabels' \in
                            (IF k = 4 THEN SUBSET valLabels ELSE {valLabels})
                    /\ UNCHANGED <<datasetYaml, manifest, rawData>>
                    /\ Return(2, FALSE, <<Error(2, {})>>)
                 \/ \* copy_files raises after j copies
                    /\ \E j \in 0..(Len(ops) - 1) :
                        /\ trainImages' = Materialized(trainImages, ops, j, "train", "image")
                        /\ trainLabels' = Materialized(trainLabels, ops, j, "train", "label")
                        /\ valImages' = Materialized(valImages, ops, j, "val", "image")
                        /\ valLabels' = Materialized(valLabels, ops, j, "val", "label")
                        /\ rawData' = RawAfterCopies(ops, j)
                    /\ UNCHANGED <<datasetYaml, manifest>>
                    /\ Return(2, FALSE, <<Error(2, {})>>)
                 \/ \* create_dataset_yaml raises, the file opened or not
                    /\ trainImages' = Materialized(trainImages, ops, Len(ops), "train", "image")
                    /\ trainLabels' = Materialized(trainLabels, ops, Len(ops), "train", "label")
                    /\ valImages' = Materialized(valImages, ops, Len(ops), "val", "image")
                    /\ valLabels' = Materialized(valLabels, ops, Len(ops), "val", "label")
                    /\ datasetYaml' \in {datasetYaml, TRUE}
                    /\ rawData' = RawAfterCopies(ops, Len(ops))
                    /\ UNCHANGED manifest
                    /\ Return(2, FALSE, <<Error(2, {})>>)
    /\ UNCHANGED <<args, classes, weights, clock, exportLocals, exportFs, mergeHist>>

(***************************************************************************)
(* step_train, lines 263-384.                                              *)
(***************************************************************************)
\* a variant without the test
DatasetYamlAssumed == FALSE

\* `if not config.DATASET_YAML.exists():`
DatasetYamlMissing == ~datasetYaml

\* up to the gate: dataset.yaml, the training images and the fine-tune model
\* are looked for
TrainCheck ==
    /\ pc = "check" /\ step = 3
    /\ IF DatasetYamlMissing
       THEN Return(3, FALSE, <<Error(3, {"dataset.yaml"})>>)
       ELSE IF CountImages(trainImages) = 0
       THEN Return(3, FALSE, <<Error(3, {})>>)
       ELSE IF fineTuneMissing
       THEN Return(3, FALSE, <<Error(3, {"fine_tune_model_path"})>>)
       ELSE pc' = "gate" /\ UNCHANGED <<step, success, exitCode, trace>>
    /\ UNCHANGED <<args, rawFs, splitFs, weights, clock, exportLocals, exportFs, mergeHist>>

\* the try block: the engine is loaded and model.train called
TrainAct ==
    /\ pc = "act" /\ step = 3
    /\ \/ \* training completes: the engine leaves best.pt and last.pt
          /\ weights' = WeightFiles
          /\ Return(3, TRUE, <<Engine(3)>>)
       \/ \* model.train raises, a checkpoint written or not
          /\ weights' \in {weights, weights \cup {"last.pt"}}
          /\ Return(3, FALSE, <<Engine(3), Error(3, {})>>)
       \/ \* the import or YOLO(...) raises
          /\ weights' = weights
          /\ Return(3, FALSE, <<Error(3, {})>>)
    /\ UNCHANGED <<args, rawFs, splitFs, clock, exportLocals, exportFs, mergeHist>>

(***************************************************************************)
(* step_export, lines 391-565.                                             *)
(***************************************************************************)
\* export_sizes = [640, 1440]
export_sizes == <<640, 1440>>

\* a file of GAME_MODELS_DIR: f"{versioned_base}.pt" (size 0),
\* f"{versioned_base}_{size}.onnx", f"{versioned_base}_{size}.txt"
Artifact(v, size, ext) == [version |-> v, size |-> size, ext |-> ext]

\* the paths print_error(f"No trained model found in {weights_dir}") names
MissingWeightsNames == {"weights"}

\* a variant without the test
TrainedModelAssumed == FALSE

\* `if not best_pt.exists() and not last_pt.exists():`
NoTrainedModel == "best.pt" \notin weights /\ "last.pt" \notin weights

\* up to the gate: the weights are looked for and the version stamp is taken
ExportCheck ==
    /\ pc = "check" /\ step = 4
    /\ IF NoTrainedModel
       THEN /\ Return(4, FALSE, <<Error(4, MissingWeightsNames)>>)
            /\ UNCHANGED version
       ELSE /\ version' = clock
            /\ pc' = "gate"
            /\ UNCHANGED <<step, success, exitCode, trace>>
    /\ UNCHANGED <<sizeIdx, deployed_models>>
    /\ UNCHANGED <<args, rawFs, splitFs, weights, clock, exportFs, mergeHist>>

\* files are written into GAME_MODELS_DIR by this invocation: a file that is
\* there already is written over
WriteFiles(files) ==
    /\ gameModels' = gameModels \cup files
    /\ writer' = [f \in gameModels \cup files |-> IF f \in files THEN run ELSE writer[f]]

\* a variant that names each file by the time it is written at
VersionedBaseNow == clock

\* versioned_base = f"{config.MODEL_NAME}_v{version}"
VersionedBase == version

\* a variant that removes what the run deployed so far
ExportFailsRollingBack(files, events) ==
    /\ gameModels' = {} /\ writer' = <<>>
    /\ Return(4, FALSE, events)
    /\ UNCHANGED <<deployed_models, sizeIdx>>

\* a variant that prints the error and goes on to `return True`
ExportFailsReportingSuccess(files, events) ==
    /\ WriteFiles(files)
    /\ Return(4, TRUE, events)
    /\ UNCHANGED <<deployed_models, sizeIdx>>

\* `except Exception as e: print_error(...); return False`, these files
\* having been written by the statement that raised
ExportFails(files, events) ==
    /\ WriteFiles(files)
    /\ Return(4, FALSE, events)
    /\ UNCHANGED <<deployed_models, sizeIdx>>

\* the start of the try block: GAME_MODELS_DIR is made and the weights copied
ExportCopyPt ==
    /\ pc = "act" /\ step = 4
    /\ \/ /\ WriteFiles({Artifact(VersionedBase, 0, "pt")})
          /\ deployed_models' = <<>>
          /\ sizeIdx' = 1
          /\ pc' = "export_loop"
          /\ UNCHANGED <<step, success, exitCode, trace>>
       \/ \* the import raises
          ExportFails({}, <<Error(4, {})>>)
       \/ \* mkdir or copy2 raises, the target created or not
          \E files \in {{}, {Artifact(VersionedBase, 0, "pt")}} :
              ExportFails(files, <<Error(4, {})>>)
    /\ UNCHANGED <<version, configExists, configIntact, gameCfg>>
    /\ UNCHANGED <<args, rawFs, splitFs, weights, clock, mergeHist>>

\* one round of `for imgsz in export_sizes`
ExportSize ==
    /\ pc = "export_loop" /\ sizeIdx <= Len(export_sizes)
    /\ LET imgsz == export_sizes[sizeIdx]
           onnx == Artifact(VersionedBase, imgsz, "onnx")
           labels == Artifact(VersionedBase, imgsz, "txt")
       IN  \/ \* model.export raises
              ExportFails({}, <<Engine(4), Error(4, {})>>)
           \/ \* copy2 of the exported file raises, the target created or not
              \E files \in {{}, {onnx}} :
                  ExportFails(files, <<Engine(4), Error(4, {})>>)
           \/ \* get_class_names raises: classes.txt is not there
              /\ ~classes.exists
              /\ ExportFails({onnx}, <<Engine(4), Error(4, {"classes.txt"})>>)
           \/ \* writing the labels file raises, the file created or not
              /\ classes.exists
              /\ \E files \in {{onnx}, {onnx, labels}} :
                    ExportFails(files, <<Engine(4), Error(4, {})>>)
           \/ \* the model is exported and deployed
              /\ classes.exists
              /\ WriteFiles({onnx, labels})
              /\ deployed_models' = Append(deployed_models, [version |-> version, size |-> imgsz])
              /\ sizeIdx' = sizeIdx + 1
              /\ Log(<<Engine(4)>>)
              /\ UNCHANGED <<pc, step, success, exitCode>>
    /\ UNCHANGED <<version, configExists, configIntact, gameCfg>>
    /\ UNCHANGED <<args, rawFs, splitFs, weights, clock, mergeHist>>

\* a variant that takes the model deployed last
DefaultModelLast(deployed) ==
    ArtifactName(deployed[Len(deployed)].version, deployed[Len(deployed)].size)

\* a variant that names the 640 model, deployed or not
DefaultModel640(deployed) == ArtifactName(deployed[1].version, 640)

\* default_model = next((name for name, size in deployed_models if size == 640),
\*                      deployed_models[0][0])
DefaultModel(deployed) ==
    LET at640 == {i \in DOMAIN deployed : deployed[i].size = 640}
        first == IF at640 = {} THEN 1 ELSE CHOOSE i \in at640 : \A j \in at640 : i <= j
    IN  ArtifactName(deployed[first].version, deployed[first].size)

\* lines 494-537: game_config.json is loaded, merged with class_names and
\* written back (the history variables record the merge)
UpdateGameConfig(class_names, default_model) ==
    /\ gameCfg' = MergeGameConfig(gameCfg, class_names, default_model)
    /\ cfgBefore' = gameCfg
    /\ mergedClasses' = class_names
    /\ IF nSame >= 1 /\ class_names = mergedClasses
       THEN cfgFirst' = cfgFirst /\ nSame' = nSame + 1
       ELSE cfgFirst' = gameCfg' /\ nSame' = 1

\* a variant that takes the missing game_config.json for a failure
MissingDocumentIsFailure == FALSE

\* the `else:` of `if config_path.exists():` goes on to `return True`
MissingDocumentResult == TRUE

\* after the loop: game_config.json is updated if it exists, and the step
\* returns True
ExportUpdateConfig ==
    /\ pc = "export_loop" /\ sizeIdx > Len(export_sizes)
    /\ IF ~configExists
       THEN \* print_warning("game_config.json not found ...")
            /\ Return(4, MissingDocumentResult, <<Warning(4, {"game_config.json"})>>)
            /\ UNCHANGED <<configIntact, gameCfg, mergeHist>>
       ELSE IF ~configIntact
       THEN \* json.load raises
            /\ Return(4, FALSE, <<Error(4, {})>>)
            /\ UNCHANGED <<configIntact, gameCfg, mergeHist>>
       ELSE \/ /\ UpdateGameConfig(classes.names, DefaultModel(deployed_models))
               /\ Return(4, TRUE, <<>>)
               /\ UNCHANGED configIntact
            \/ \* open(config_path, 'w') or json.dump raises: the file is
               \* as it was, or cut short
               /\ configIntact' \in BOOLEAN
               /\ Return(4, FALSE, <<Error(4, {})>>)
               /\ UNCHANGED <<gameCfg, mergeHist>>
    /\ UNCHANGED <<gameModels, writer, configExists, exportLocals>>
    /\ UNCHANGED <<args, rawFs, splitFs, weights, clock>>

\* a second passes while an export runs (no other step reads the clock)
Tick ==
    /\ \/ step = 4 /\ pc \in {"check", "gate", "act", "export_loop"}
       \/ pc \in {"sa_begin", "sa_loop", "sa_save"}
    /\ clock < MaxClock
    /\ clock' = clock + 1
    /\ UNCHANGED <<args, ctl, rawFs, splitFs, weights, exportLocals, exportFs, mergeHist>>

(***************************************************************************)
(* export_model.py, the export script that runs on its own: main, lines    *)
(* 190-316, run without --use-last, --weights-path, --no-deploy and        *)
(* --no-save-pt.                                                           *)
(***************************************************************************)
\* `if args.size: export_sizes = [args.size] else: export_sizes = [640, 1440]`
export_sizes_for(size) == IF size = 0 THEN export_sizes ELSE <<size>>

\* target_pt = GAME_MODELS_DIR / "best.pt": a name without a version stamp
BestPtCopy == Artifact(0 - 1, 0, "pt")

\* sys.exit(1), or an exception that no handler of the script catches: the
\* interpreter prints the traceback and ends with status 1
ScriptEnds(status, events) ==
    /\ pc' = "sa_done"
    /\ exitCode' = status
    /\ Log(events)
    /\ UNCHANGED <<step, success>>

\* lines 226-243: the weights are looked for and the version stamp is taken
FindTrainedModel ==
    /\ pc = "sa_begin"
    /\ IF "best.pt" \notin weights
       THEN /\ ScriptEnds(FailureExitStatus, <<Error(4, {"best.pt"})>>)
            /\ UNCHANGED exportLocals
       ELSE /\ version' = clock
            /\ deployed_models' = <<>>
            /\ sizeIdx' = 1
            /\ pc' = "sa_loop"
            /\ UNCHANGED <<step, success, exitCode, trace>>
    /\ UNCHANGED <<args, rawFs, splitFs, weights, clock, exportFs, mergeHist>>

\* lines 246-263: one round of `for imgsz in export_sizes`, export_to_onnx
\* and deploy_to_game_models
ExportAndDeploy ==
    /\ pc = "sa_loop" /\ sizeIdx <= Len(export_sizes_for(argSize))
    /\ LET imgsz == export_sizes_for(argSize)[sizeIdx]
           onnx == Artifact(version, imgsz, "onnx")
           labels == Artifact(version, imgsz, "txt")
       IN  \/ \* the import fails (sys.exit(1)) or model.export raises
              /\ ScriptEnds(FailureExitStatus, <<Engine(4), Error(4, {})>>)
              /\ UNCHANGED <<gameModels, writer, deployed_models, sizeIdx>>
           \/ \* copy2 of the exported file raises, the target created or not
              /\ \E files \in {{}, {onnx}} : WriteFiles(files)
              /\ ScriptEnds(FailureExitStatus, <<Engine(4), Error(4, {})>>)
              /\ UNCHANGED <<deployed_models, sizeIdx>>
           \/ \* get_class_names raises: classes.txt is not there
              /\ ~classes.exists
              /\ WriteFiles({onnx})
              /\ ScriptEnds(FailureExitStatus, <<Engine(4), Error(4, {"classes.txt"})>>)
              /\ UNCHANGED <<deployed_models, sizeIdx>>
           \/ \* writing the labels file raises, the file created or not
              /\ classes.exists
              /\ \E files \in {{onnx}, {onnx, labels}} : WriteFiles(files)
              /\ ScriptEnds(FailureExitStatus, <<Engine(4), Error(4, {})>>)
              /\ UNCHANGED <<deployed_models, sizeIdx>>
           \/ \* the model is exported and deployed
              /\ classes.exists
              /\ WriteFiles({onnx, labels})
              /\ deployed_models' = Append(deployed_models, [version |-> version, size |-> imgsz])
              /\ sizeIdx' = sizeIdx + 1
              /\ Log(<<Engine(4)>>)
              /\ UNCHANGED <<pc, step, success, exitCode>>
    /\ UNCHANGED <<version, configExists, configIntact, gameCfg>>
    /\ UNCHANGED <<args, rawFs, splitFs, weights, clock, mergeHist>>

\* lines 265-273 with update_game_config, lines 141-165: after the loop
\* modelFile is set in game_config.json if the file exists
update_game_config ==
    /\ pc = "sa_loop" /\ sizeIdx > Len(export_sizes_for(argSize))
    /\ IF ~configExists
       THEN \* print("WARNING: game_config.json not found ..."); return
            /\ pc' = "sa_save"
            /\ Log(<<Warning(4, {"game_config.json"})>>)
            /\ UNCHANGED <<step, success, exitCode, configIntact, gameCfg>>
       ELSE IF ~configIntact
       THEN \* json.load raises
            /\ ScriptEnds(FailureExitStatus, <<Error(4, {})>>)
            /\ UNCHANGED <<configIntact, gameCfg>>
       ELSE \/ /\ gameCfg' = SetModelFile(gameCfg, DefaultModel(deployed_models))
               /\ pc' = "sa_save"
               /\ UNCHANGED <<step, success, exitCode, trace, configIntact>>
            \/ \* open(config_path, 'w') or json.dump raises: the file is
               \* as it was, or cut short
               /\ configIntact' \in BOOLEAN
               /\ ScriptEnds(FailureExitStatus, <<Error(4, {})>>)
               /\ UNCHANGED gameCfg
    /\ UNCHANGED <<gameModels, writer, configExists, exportLocals, mergeHist>>
    /\ UNCHANGED <<args, rawFs, splitFs, weights, clock>>

\* lines 275-316: best.pt is copied into GAME_MODELS_DIR and main returns
SaveBestPt ==
    /\ pc = "sa_save"
    /\ \/ /\ WriteFiles({BestPtCopy})
          /\ ScriptEnds(0, <<Returned(4, TRUE)>>)
       \/ \* copy2 raises, the target created or not
          /\ \E files \in {{}, {BestPtCopy}} : WriteFiles(files)
          /\ ScriptEnds(FailureExitStatus, <<Error(4, {})>>)
    /\ UNCHANGED <<configExists, configIntact, gameCfg, exportLocals>>
    /\ UNCHANGED <<args, rawFs, splitFs, weights, clock, mergeHist>>

(***************************************************************************)
(* config.py: the runtime configuration, the module-level values derived   *)
(* from it, and TRAINING_CONFIG.                                           *)
(***************************************************************************)
\* Python's None
None == "None"

\* the fields of RuntimeConfig, which are the parameters of
\* apply_config_overrides
ConfigFields ==
    {"game_id", "model_name", "base_model", "training_data_path",
     "game_models_path", "stats_output_path", "fine_tune_model_path"}

\* _runtime_config = RuntimeConfig(): the compiled-in defaults
RuntimeConfig ==
    [game_id |-> "arc_raiders", model_name |-> "ArcRaidersModel",
     base_model |-> "yolo11n.pt", training_data_path |-> None,
     game_models_path |-> None, stats_output_path |-> None,
     fine_tune_model_path |-> None]

\* the values a caller or a command line may supply for a field
FieldValues(f) ==
    CASE f = "game_id" -> {"arc_raiders", "no_mans_sky"}
      [] f = "model_name" -> {"NoMansModel"}
      [] f = "base_model" -> {"yolo11s.pt"}
      [] f = "training_data_path" -> {"", "data/", "D:/td"}
      [] f = "game_models_path" -> {"", "D:/models"}
      [] f = "stats_output_path" -> {"stats"}
      [] f = "fine_tune_model_path" -> {"best.pt"}

\* the keyword arguments of one call of apply_config_overrides
Overrides ==
    [game_id : FieldValues("game_id") \cup {None},
     model_name : FieldValues("model_name") \cup {None},
     base_model : FieldValues("base_model") \cup {None},
     training_data_path : FieldValues("training_data_path") \cup {None},
     game_models_path : FieldValues("game_models_path") \cup {None},
     stats_output_path : FieldValues("stats_output_path") \cup {None},
     fine_tune_model_path : FieldValues("fine_tune_model_path") \cup {None}]

\* a variant that assigns every parameter, given or not
apply_config_overrides_assigning_all(cfg, o) == o

\* lines 73-86: `if x is not None: _runtime_config.x = x`, field by field
apply_config_overrides(cfg, o) ==
    [f \in ConfigFields |-> IF o[f] # None THEN o[f] ELSE cfg[f]]

\* a variant that takes every path for unset
TruthyNever(text) == FALSE

\* the truth value of an Optional[str]
Truthy(text) == text # None /\ text # ""

\* SCRIPT_DIR.parent and its grandparent, lines 174-176
TRAINING_TOOL_DIR == <<"TRAINING_TOOL_DIR">>

PROJECT_ROOT == <<"PROJECT_ROOT">>

SCRIPT_DIR == TRAINING_TOOL_DIR \o <<"scripts">>

\* the working directories a process may run in
WorkingDirs == {"/home/user", "/tmp"}

\* the parts of the path a string names: a trailing separator is dropped
PathParts(text) ==
    CASE text = "data/" -> <<"data">>
      [] text = "D:/td" -> <<"D:", "td">>
      [] text = "D:/models" -> <<"D:", "models">>
      [] OTHER -> <<text>>

IsAbsolute(text) == text \in {"D:/td", "D:/models"}

\* a variant that resolves a relative path against the working directory
PathResolved(text, dir) ==
    IF IsAbsolute(text) THEN PathParts(text) ELSE <<dir>> \o PathParts(text)

\* Path(text): the working directory takes no part in it
Path(text, dir) == PathParts(text)

\* lines 219-238: the module-level values when config.py is imported
ModuleGlobals ==
    LET GAME_ID == "arc_raiders"
        TRAINING_DATA_DIR == TRAINING_TOOL_DIR \o <<"training_data", GAME_ID>>
    IN  [GAME_ID |-> GAME_ID,
         MODEL_NAME |-> "ArcRaidersModel",
         BASE_MODEL |-> "yolo11n.pt",
         TRAINING_DATA_DIR |-> TRAINING_DATA_DIR,
         IMAGES_DIR |-> TRAINING_DATA_DIR \o <<"images">>,
         LABELS_DIR |-> TRAINING_DATA_DIR \o <<"labels">>,
         CLASSES_FILE |-> TRAINING_DATA_DIR \o <<"labels", "classes.txt">>,
         DATASET_YAML |-> TRAINING_DATA_DIR \o <<"dataset.yaml">>,
         TRAIN_IMAGES_DIR |-> TRAINING_DATA_DIR \o <<"train", "images">>,
         TRAIN_LABELS_DIR |-> TRAINING_DATA_DIR \o <<"train", "labels">>,
         VAL_IMAGES_DIR |-> TRAINING_DATA_DIR \o <<"val", "images">>,
         VAL_LABELS_DIR |-> TRAINING_DATA_DIR \o <<"val", "labels">>,
         RUNS_DIR |-> SCRIPT_DIR \o <<"runs", "detect">>,
         GAME_MODELS_DIR |-> PROJECT_ROOT \o <<"GameModels", GAME_ID>>]

\* the module-level values that name a path
PathFields ==
    {"TRAINING_DATA_DIR", "IMAGES_DIR", "LABELS_DIR", "CLASSES_FILE", "DATASET_YAML",
     "TRAIN_IMAGES_DIR", "TRAIN_LABELS_DIR", "VAL_IMAGES_DIR", "VAL_LABELS_DIR",
     "RUNS_DIR", "GAME_MODELS_DIR"}

\* _recalculate_paths, lines 179-215: the module-level values are assigned
\* from cfg = _runtime_config; RUNS_DIR is not among them
recalculate_paths(globals, cfg, dir) ==
    LET GAME_ID == cfg.game_id
        TRAINING_DATA_DIR ==
            IF Truthy(cfg.training_data_path)
            THEN Path(cfg.training_data_path, dir)
            ELSE TRAINING_TOOL_DIR \o <<"training_data", GAME_ID>>
        GAME_MODELS_DIR ==
            IF Truthy(cfg.game_models_path)
            THEN Path(cfg.game_models_path, dir)
            ELSE PROJECT_ROOT \o <<"GameModels", GAME_ID>>
    IN  [GAME_ID |-> GAME_ID,
         MODEL_NAME |-> cfg.model_name,
         BASE_MODEL |-> cfg.base_model,
         TRAINING_DATA_DIR |-> TRAINING_DATA_DIR,
         IMAGES_DIR |-> TRAINING_DATA_DIR \o <<"images">>,
         LABELS_DIR |-> TRAINING_DATA_DIR \o <<"labels">>,
         CLASSES_FILE |-> TRAINING_DATA_DIR \o <<"labels", "classes.txt">>,
         DATASET_YAML |-> TRAINING_DATA_DIR \o <<"dataset.yaml">>,
         TRAIN_IMAGES_DIR |-> TRAINING_DATA_DIR \o <<"train", "images">>,
         TRAIN_LABELS_DIR |-> TRAINING_DATA_DIR \o <<"train", "labels">>,
         VAL_IMAGES_DIR |-> TRAINING_DATA_DIR \o <<"val", "images">>,
         VAL_LABELS_DIR |-> TRAINING_DATA_DIR \o <<"val", "labels">>,
         RUNS_DIR |-> globals.RUNS_DIR,
         GAME_MODELS_DIR |-> GAME_MODELS_DIR]

\* TRAINING_CONFIG as config.py defines it, lines 249-467
TrainingDefaults ==
    [device |-> "cuda", epochs |-> "150", imgsz |-> "1440", batch |-> "0.70",
     patience |-> "50", lr0 |-> "0.01", weight_decay |-> "0.0005",
     warmup_epochs |-> "3", augment |-> "True", hsv_h |-> "0.015", hsv_s |-> "0.7",
     hsv_v |-> "0.4", degrees |-> "0.0", translate |-> "0.1", scale |-> "0.5",
     fliplr |-> "0.0", flipud |-> "0.0", mosaic |-> "1.0", mixup |-> "0.0",
     close_mosaic |-> "10", workers |-> "8", cache |-> "True", amp |-> "True",
     cos_lr |-> "True"]

\* the training parameters add_config_arguments defines an option for
TrainingOptions ==
    {"epochs", "imgsz", "batch", "patience", "lr0", "device", "workers", "cache", "amp"}

\* the values a command line may give them, as parse_args returns them
OptionValues(k) ==
    CASE k = "epochs" -> {"300"}
      [] k = "imgsz" -> {"640"}
      [] k = "batch" -> {"16.0"}
      [] k = "patience" -> {"20"}
      [] k = "lr0" -> {"0.001"}
      [] k = "device" -> {"cpu"}
      [] k = "workers" -> {"0"}
      [] k = "cache" -> {"True", "False"}
      [] k = "amp" -> {"True", "False"}

\* parse_args with no option given: every attribute is None (set_defaults
\* makes cache and amp None too)
NoArgs == [k \in ConfigFields \cup TrainingOptions |-> None]

\* what parse_args may return for a command line of at most MaxOptions
\* of these options
CommandLines ==
    {[k \in ConfigFields \cup TrainingOptions |-> IF k \in DOMAIN given THEN given[k] ELSE None] :
        given \in UNION {
            {g \in [ks -> UNION ({FieldValues(f) : f \in ConfigFields}
                                 \cup {OptionValues(k) : k \in TrainingOptions})] :
                \A k \in ks : g[k] \in (IF k \in ConfigFields THEN FieldValues(k)
                                        ELSE OptionValues(k))} :
            ks \in {s \in SUBSET (ConfigFields \cup TrainingOptions) :
                        Cardinality(s) <= MaxOptions}}}

\* a variant that tests the truth value of the option
ApplyTrainingArgsIfTruthy(training_config, a) ==
    [k \in DOMAIN training_config |->
        IF k \in TrainingOptions /\ a[k] \notin {None, "False", "0"}
        THEN a[k]
        ELSE training_config[k]]

\* lines 149-166: `if getattr(args, k, None) is not None: TRAINING_CONFIG[k] = args.k`
ApplyTrainingArgs(training_config, a) ==
    [k \in DOMAIN training_config |->
        IF k \in TrainingOptions /\ a[k] # None THEN a[k] ELSE training_config[k]]

\* one resolution as a second process makes it, in its own working directory
Twin(dir) == [cwd |-> dir, runtime_config |-> RuntimeConfig, config |-> ModuleGlobals]

\* one call apply_config_overrides(**o), in this process and in the second
CallApplyConfigOverrides(o) ==
    /\ runtime_config' = apply_config_overrides(runtime_config, o)
    /\ config' = recalculate_paths(config, runtime_config', cwd)
    /\ supplied' = [f \in ConfigFields |-> IF o[f] # None THEN o[f] ELSE supplied[f]]
    /\ twin' = [twin EXCEPT
                    !.runtime_config = apply_config_overrides(twin.runtime_config, o),
                    !.config = recalculate_paths(twin.config,
                                   apply_config_overrides(twin.runtime_config, o), twin.cwd)]

\* args = parser.parse_args()
ParseArgs ==
    /\ pc = "parse_args"
    /\ parsed' \in CommandLines
    /\ pc' = "apply_args"
    /\ UNCHANGED <<runtime_config, config, TRAINING_CONFIG, supplied, cwd, used, twin>>
    /\ UNCHANGED <<skip_to, AUTO_YES, fineTuneMissing, script, argSize, run>>
    /\ UNCHANGED <<step, success, exitCode, trace>>
    /\ UNCHANGED <<rawFs, splitFs, weights, clock, exportLocals, exportFs, mergeHist>>

\* apply_args_to_config(args), lines 131-166
apply_args_to_config ==
    /\ pc = "apply_args"
    /\ CallApplyConfigOverrides([f \in ConfigFields |-> parsed[f]])
    /\ TRAINING_CONFIG' = ApplyTrainingArgs(TRAINING_CONFIG, parsed)
    /\ pc' = "configured"
    /\ UNCHANGED <<parsed, cwd, used>>
    /\ UNCHANGED <<skip_to, AUTO_YES, fineTuneMissing, script, argSize, run>>
    /\ UNCHANGED <<step, success, exitCode, trace>>
    /\ UNCHANGED <<rawFs, splitFs, weights, clock, exportLocals, exportFs, mergeHist>>

\* "usage from code": apply_config_overrides is called, any number of times
ApplyConfigOverrides ==
    /\ pc = "configure"
    /\ \E o \in Overrides : CallApplyConfigOverrides(o)
    /\ UNCHANGED <<TRAINING_CONFIG, parsed, cwd, used>>
    /\ UNCHANGED <<skip_to, AUTO_YES, fineTuneMissing, script, argSize, run>>
    /\ UNCHANGED ctl
    /\ UNCHANGED <<rawFs, splitFs, weights, clock, exportLocals, exportFs, mergeHist>>

\* `from config import (GAME_ID, ...)` at the top of export_model.py and of
\* train_model.py: the module-level names of the script are bound to the
\* values config.py holds when the script is imported, before main runs
ImportedNames == ModuleGlobals

\* no script has named a path yet
NothingUsed == <<>>

\* export_model.py, find_trained_model, line 66: RUNS_DIR / f"{GAME_ID}_model"
\* / "weights"; the names are the module-level names of the script
find_trained_model(names) == [dir |-> names.RUNS_DIR, game |-> names.GAME_ID]

\* export_model.py, deploy_to_game_models, lines 112-119: the folder and the
\* name the .onnx and the .txt are written under
deploy_to_game_models(names) == [dir |-> names.GAME_MODELS_DIR, model |-> names.MODEL_NAME]

\* export_model.py, update_game_config, line 143
config_path(names) == names.GAME_MODELS_DIR \o <<"game_config.json">>

\* export_model.py, main, line 278
target_pt(names) == names.GAME_MODELS_DIR \o <<"best.pt">>

\* train_model.py, train_model, lines 94-95
output_dir(names) == [dir |-> names.RUNS_DIR, game |-> names.GAME_ID]

\* export_model.py, main, lines 213-281, without --weights-path, --no-deploy
\* and --no-save-pt: the re-import of line 214 binds names of main only, so
\* find_trained_model, deploy_to_game_models and update_game_config read the
\* module-level names of the script, line 278 reads the name of main and
\* get_class_names reads CLASSES_FILE of config.py
export_model_main ==
    /\ pc = "configured" /\ script = "export_model" /\ used = NothingUsed
    /\ used' = [weights |-> find_trained_model(ImportedNames),
                artifacts |-> deploy_to_game_models(ImportedNames),
                class_list |-> config.CLASSES_FILE,
                document |-> config_path(ImportedNames),
                saved_pt |-> target_pt(config)]
    /\ pc' = pc
    /\ UNCHANGED <<runtime_config, config, TRAINING_CONFIG, parsed, supplied, cwd, twin>>
    /\ UNCHANGED <<skip_to, AUTO_YES, fineTuneMissing, script, argSize, run>>
    /\ UNCHANGED <<step, success, exitCode, trace>>
    /\ UNCHANGED <<rawFs, splitFs, weights, clock, exportLocals, exportFs, mergeHist>>

\* train_model.py, main, lines 219-249, without --resume: check_prerequisites
\* (line 59) and train_args["data"] (line 130) read the module-level
\* DATASET_YAML of the script; train_model re-imports GAME_ID, BASE_MODEL and
\* RUNS_DIR (line 88) for the folder the weights are saved under
train_model_main ==
    /\ pc = "configured" /\ script = "train_model" /\ used = NothingUsed
    /\ used' = [prerequisite |-> ImportedNames.DATASET_YAML,
                data |-> ImportedNames.DATASET_YAML,
                output |-> output_dir(config)]
    /\ pc' = pc
    /\ UNCHANGED <<runtime_config, config, TRAINING_CONFIG, parsed, supplied, cwd, twin>>
    /\ UNCHANGED <<skip_to, AUTO_YES, fineTuneMissing, script, argSize, run>>
    /\ UNCHANGED <<step, success, exitCode, trace>>
    /\ UNCHANGED <<rawFs, splitFs, weights, clock, exportLocals, exportFs, mergeHist>>

\* config.py has just been imported and no override was applied
Unconfigured ==
    /\ runtime_config = RuntimeConfig
    /\ config = ModuleGlobals
    /\ TRAINING_CONFIG = TrainingDefaults
    /\ parsed = NoArgs
    /\ supplied = [f \in ConfigFields |-> None]
    /\ cwd = "/home/user"
    /\ used = NothingUsed
    /\ twin = Twin("/home/user")

\* the values of config.py where a specification leaves them out: the merge
\* of game_config.json is the same whatever the names and the paths are
LeftOut == <<>>

ConfigLeftOut ==
    /\ runtime_config = LeftOut
    /\ config = LeftOut
    /\ TRAINING_CONFIG = LeftOut
    /\ parsed = LeftOut
    /\ supplied = LeftOut
    /\ cwd = LeftOut
    /\ used = LeftOut
    /\ twin = LeftOut

(***************************************************************************)
(* The pipeline: one run of main from any state of the folders.            *)
(***************************************************************************)
NoClasses == [exists |-> FALSE, names |-> <<>>]

ClassesFile(names) == [exists |-> TRUE, names |-> names]

EmptyGameConfig == GameConfig({"modelFile"}, OldModelFile, <<>>, <<>>, <<>>, <<>>)

Init ==
    /\ skip_to \in 1..4
    /\ AUTO_YES \in BOOLEAN
    /\ fineTuneMissing \in BOOLEAN
    /\ script = "pipeline" /\ argSize = 0 /\ run = 1
    /\ pc = "begin" /\ step = 1 /\ success = TRUE /\ exitCode = -1 /\ trace = <<>>
    /\ rawData \in [ImageFiles -> ImageStates]
    /\ classes \in {NoClasses} \cup {ClassesFile(cl) : cl \in PipelineClassLists}
    /\ \E split \in {NoSplit, StaleSplit} :
        /\ trainImages = split.trainImages /\ trainLabels = split.trainLabels
        /\ valImages = split.valImages /\ valLabels = split.valLabels
    /\ datasetYaml \in BOOLEAN
    /\ manifest = NoManifest
    /\ weights \in SUBSET WeightFiles
    /\ clock = 1
    /\ version = 0 /\ sizeIdx = 1 /\ deployed_models = <<>>
    /\ gameModels = {} /\ writer = <<>>
    /\ \/ configExists = FALSE /\ configIntact = FALSE /\ gameCfg = EmptyGameConfig
       \/ configExists = TRUE /\ configIntact = FALSE /\ gameCfg = EmptyGameConfig
       \/ configExists = TRUE /\ configIntact = TRUE /\ gameCfg \in PipelineGameConfigs
    /\ cfgBefore = gameCfg /\ mergedClasses = <<>> /\ cfgFirst = gameCfg /\ nSame = 0
    /\ Unconfigured

Next ==
    \/ BeginGate
    \/ Reprompt
    \/ Dispatch
    \/ AfterStep
    \/ Gate
    \/ CleanCheck
    \/ CleanAct
    \/ SplitCheck
    \/ SplitAct
    \/ TrainCheck
    \/ TrainAct
    \/ ExportCheck
    \/ ExportCopyPt
    \/ ExportSize
    \/ ExportUpdateConfig
    \/ Tick

Spec == Init /\ [][Next]_vars

\* the steps the process takes without waiting for anybody: every statement
\* of main and of the step functions once the call it makes has returned;
\* a gate is among them only with --auto-yes, where prompt_yes_no returns
\* without input()
Unprompted ==
    \/ AUTO_YES /\ BeginGate
    \/ AUTO_YES /\ Gate
    \/ Dispatch
    \/ AfterStep
    \/ CleanCheck
    \/ CleanAct
    \/ SplitCheck
    \/ SplitAct
    \/ TrainCheck
    \/ TrainAct
    \/ ExportCheck
    \/ ExportCopyPt
    \/ ExportSize
    \/ ExportUpdateConfig

\* the pipeline is started with --auto-yes
InitLive == Init /\ AUTO_YES

\* the steps of such a run: there is no console to read from, and the time
\* that passes meanwhile changes no step it takes
NextLive == Unprompted

\* one pipeline run with --auto-yes of a process that keeps running
SpecLive == InitLive /\ [][NextLive]_vars /\ WF_vars(Unprompted)

(***************************************************************************)
(* The merge alone: exports that follow each other on one game_config.json,*)
(* each with any class list in classes.txt.                                *)
(***************************************************************************)
InitMerge ==
    /\ skip_to = 4 /\ AUTO_YES = TRUE /\ fineTuneMissing = FALSE
    /\ script = "pipeline" /\ argSize = 0 /\ run = 1
    /\ pc = "merge" /\ step = 4 /\ success = TRUE /\ exitCode = -1 /\ trace = <<>>
    /\ rawData = [f \in ImageFiles |-> "absent"]
    /\ classes = ClassesFile(<<>>)
    /\ trainImages = {} /\ trainLabels = {} /\ valImages = {} /\ valLabels = {}
    /\ datasetYaml = FALSE
    /\ manifest = NoManifest
    /\ weights = WeightFiles
    /\ clock = 1
    /\ version = 1 /\ sizeIdx = 1 /\ deployed_models = <<[version |-> 1, size |-> 640]>>
    /\ gameModels = {} /\ writer = <<>>
    /\ configExists = TRUE /\ configIntact = TRUE
    /\ gameCfg \in InitialGameConfigs
    /\ cfgBefore = gameCfg /\ mergedClasses = <<>> /\ cfgFirst = gameCfg /\ nSame = 0
    /\ ConfigLeftOut

\* classes.txt holds class_names and an export merges it into game_config.json
MergeExport ==
    /\ pc = "merge"
    /\ UNCHANGED <<args, ctl, rawData, splitFs, weights, clock, exportLocals>>
    /\ UNCHANGED <<gameModels, writer, configExists, configIntact>>
    /\ LET default_model == DefaultModel(deployed_models)
       IN  \E class_names \in ClassLists :
            /\ nSame >= 1 /\ class_names = mergedClasses => nSame < MaxRepeat
            /\ classes' = ClassesFile(class_names)
            /\ UpdateGameConfig(class_names, default_model)

NextMerge == MergeExport

SpecMerge == InitMerge /\ [][NextMerge]_vars

(***************************************************************************)
(* Exports that follow each other into one GAME_MODELS_DIR: each is the    *)
(* pipeline started with --skip-to 4 --auto-yes, or export_model.py.       *)
(***************************************************************************)
\* the command lines an export is started with
Invocations ==
    {[script |-> "pipeline", size |-> 0]}
    \cup {[script |-> "export_model", size |-> sz] : sz \in {0, 640, 1440}}

EntryPoint(inv) == IF inv.script = "pipeline" THEN "begin" ELSE "sa_begin"

InitExports ==
    /\ skip_to = 4 /\ AUTO_YES = TRUE /\ fineTuneMissing = FALSE
    /\ \E inv \in Invocations :
        script = inv.script /\ argSize = inv.size /\ pc = EntryPoint(inv)
    /\ run = 1
    /\ step = 1 /\ success = TRUE /\ exitCode = -1 /\ trace = <<>>
    /\ rawData = [f \in ImageFiles |-> "absent"]
    /\ classes \in {NoClasses} \cup {ClassesFile(cl) : cl \in PipelineClassLists}
    /\ trainImages = {} /\ trainLabels = {} /\ valImages = {} /\ valLabels = {}
    /\ datasetYaml = FALSE
    /\ manifest = NoManifest
    /\ weights \in SUBSET WeightFiles
    /\ clock = 1
    /\ version = 0 /\ sizeIdx = 1 /\ deployed_models = <<>>
    /\ gameModels = {} /\ writer = <<>>
    /\ \/ configExists = FALSE /\ configIntact = FALSE /\ gameCfg = EmptyGameConfig
       \/ configExists = TRUE /\ configIntact = TRUE /\ gameCfg \in PipelineGameConfigs
    /\ cfgBefore = gameCfg /\ mergedClasses = <<>> /\ cfgFirst = gameCfg /\ nSame = 0
    /\ Unconfigured

\* the process has ended and the next export is started, in the same second
\* or later (the stamp is the local time in whole seconds)
NextInvocation ==
    /\ pc \in {"complete", "cancelled", "halted", "sa_done"}
    /\ run < MaxRuns
    /\ run' = run + 1
    /\ \E inv \in Invocations :
        script' = inv.script /\ argSize' = inv.size /\ pc' = EntryPoint(inv)
    /\ step' = 1 /\ success' = TRUE /\ exitCode' = -1 /\ trace' = <<>>
    /\ version' = 0 /\ sizeIdx' = 1 /\ deployed_models' = <<>>
    /\ clock' \in clock..MaxClock
    /\ UNCHANGED <<skip_to, AUTO_YES, fineTuneMissing, resolved>>
    /\ UNCHANGED <<rawFs, splitFs, weights, exportFs, mergeHist>>

NextExports ==
    \/ BeginGate
    \/ Dispatch
    \/ AfterStep
    \/ Gate
    \/ ExportCheck
    \/ ExportCopyPt
    \/ ExportSize
    \/ ExportUpdateConfig
    \/ FindTrainedModel
    \/ ExportAndDeploy
    \/ update_game_config
    \/ SaveBestPt
    \/ Tick
    \/ NextInvocation

SpecExports == InitExports /\ [][NextExports]_vars

(***************************************************************************)
(* The split alone: the try block of step_split, run again and again on    *)
(* one IMAGES_DIR and LABELS_DIR of up to MaxImages image files.           *)
(***************************************************************************)
ImagePool ==
    <<File("a", "jpg"), File("b", "jpeg"), File("c", "png"), File("d", "jpg"),
      File("e", "png"), File("f", "jpg")>>

SplitImageFiles == {ImagePool[i] : i \in 1..MaxImages}

InitSplit ==
    /\ skip_to = 2 /\ AUTO_YES = TRUE /\ fineTuneMissing = FALSE
    /\ script = "pipeline" /\ argSize = 0 /\ run = 1
    /\ pc = "act" /\ step = 2 /\ success = TRUE /\ exitCode = -1 /\ trace = <<>>
    /\ rawData \in [SplitImageFiles -> ImageStates]
    /\ classes \in {ClassesFile(cl) : cl \in PipelineClassLists}
    /\ \E split \in {NoSplit, StaleSplit} :
        /\ trainImages = split.trainImages /\ trainLabels = split.trainLabels
        /\ valImages = split.valImages /\ valLabels = split.valLabels
    /\ datasetYaml = FALSE
    /\ manifest = NoManifest
    /\ weights = {}
    /\ clock = 1
    /\ version = 0 /\ sizeIdx = 1 /\ deployed_models = <<>>
    /\ gameModels = {} /\ writer = <<>>
    /\ configExists = FALSE /\ configIntact = FALSE /\ gameCfg = EmptyGameConfig
    /\ cfgBefore = gameCfg /\ mergedClasses = <<>> /\ cfgFirst = gameCfg /\ nSame = 0
    /\ Unconfigured

\* the pipeline is started again on the same folders and comes to the try
\* block of step_split
SplitAgain ==
    /\ pc = "returned" /\ step = 2
    /\ run < MaxRuns
    /\ run' = run + 1
    /\ pc' = "act"
    /\ UNCHANGED <<skip_to, AUTO_YES, fineTuneMissing, script, argSize, resolved>>
    /\ UNCHANGED <<step, success, exitCode, trace>>
    /\ UNCHANGED <<rawFs, splitFs, weights, clock, exportLocals, exportFs, mergeHist>>

NextSplit ==
    \/ SplitAct
    \/ SplitAgain

SpecSplit == InitSplit /\ [][NextSplit]_vars

(***************************************************************************)
(* The split of a folder where two image files share a stem: a.jpg and     *)
(* a.png have the one annotation file a.txt.                               *)
(***************************************************************************)
StemImageFiles == {File("a", "jpg"), File("a", "png"), File("b", "jpeg")}

\* the image files of one stem that are there have the same annotation file
SameStemSameLabel(raw) ==
    \A f, g \in DOMAIN raw :
        f.stem = g.stem /\ raw[f] # "absent" /\ raw[g] # "absent" => raw[f] = raw[g]

InitStems ==
    /\ skip_to = 2 /\ AUTO_YES = TRUE /\ fineTuneMissing = FALSE
    /\ script = "pipeline" /\ argSize = 0 /\ run = 1
    /\ pc = "act" /\ step = 2 /\ success = TRUE /\ exitCode = -1 /\ trace = <<>>
    /\ rawData \in {raw \in [StemImageFiles -> ImageStates] : SameStemSameLabel(raw)}
    /\ classes \in {ClassesFile(cl) : cl \in PipelineClassLists}
    /\ \E split \in {NoSplit, StaleSplit} :
        /\ trainImages = split.trainImages /\ trainLabels = split.trainLabels
        /\ valImages = split.valImages /\ valLabels = split.valLabels
    /\ datasetYaml = FALSE
    /\ manifest = NoManifest
    /\ weights = {}
    /\ clock = 1
    /\ version = 0 /\ sizeIdx = 1 /\ deployed_models = <<>>
    /\ gameModels = {} /\ writer = <<>>
    /\ configExists = FALSE /\ configIntact = FALSE /\ gameCfg = EmptyGameConfig
    /\ cfgBefore = gameCfg /\ mergedClasses = <<>> /\ cfgFirst = gameCfg /\ nSame = 0
    /\ Unconfigured

SpecStems == InitStems /\ [][NextSplit]_vars

(***************************************************************************)
(* The configuration alone: a process that parses a command line and       *)
(* applies it, or one that calls apply_config_overrides again and again;   *)
(* a second process in a working directory of its own makes the same       *)
(* calls.                                                                  *)
(***************************************************************************)
InitConfig ==
    /\ skip_to = 1 /\ AUTO_YES = TRUE /\ fineTuneMissing = FALSE
    /\ argSize = 0 /\ run = 1
    /\ pc \in {"parse_args", "configure"}
    /\ script \in (IF pc = "parse_args" THEN {"pipeline", "export_model", "train_model"}
                                         ELSE {"pipeline"})
    /\ step = 1 /\ success = TRUE /\ exitCode = -1 /\ trace = <<>>
    /\ rawData = [f \in ImageFiles |-> "absent"]
    /\ classes = NoClasses
    /\ trainImages = {} /\ trainLabels = {} /\ valImages = {} /\ valLabels = {}
    /\ datasetYaml = FALSE
    /\ manifest = NoManifest
    /\ weights = {}
    /\ clock = 1
    /\ version = 0 /\ sizeIdx = 1 /\ deployed_models = <<>>
    /\ gameModels = {} /\ writer = <<>>
    /\ configExists = FALSE /\ configIntact = FALSE /\ gameCfg = EmptyGameConfig
    /\ cfgBefore = gameCfg /\ mergedClasses = <<>> /\ cfgFirst = gameCfg /\ nSame = 0
    /\ runtime_config = RuntimeConfig
    /\ config = ModuleGlobals
    /\ TRAINING_CONFIG = TrainingDefaults
    /\ parsed = NoArgs
    /\ supplied = [f \in ConfigFields |-> None]
    /\ cwd \in WorkingDirs
    /\ used = NothingUsed
    /\ \E dir \in WorkingDirs : twin = Twin(dir)

NextConfig ==
    \/ ParseArgs
    \/ apply_args_to_config
    \/ ApplyConfigOverrides
    \/ export_model_main
    \/ train_model_main

SpecConfig == InitConfig /\ [][NextConfig]_vars

(***************************************************************************)
(* Pipeline runs that follow each other on one training_data folder: each  *)
(* is 01_train_pipeline.py --auto-yes with any --skip-to, started when the *)
(* run before it has ended.                                                *)
(***************************************************************************)
\* train/, val/ and dataset.yaml as the first run finds them: never made, or
\* as an earlier split of a.jpg and b.jpeg left them
EarlierSplit == [train_images |-> StaleSplit.trainImages, val_images |-> StaleSplit.valImages]

InitRuns ==
    /\ skip_to \in 1..4
    /\ AUTO_YES = TRUE /\ fineTuneMissing = FALSE
    /\ script = "pipeline" /\ argSize = 0 /\ run = 1
    /\ pc = "begin" /\ step = 1 /\ success = TRUE /\ exitCode = -1 /\ trace = <<>>
    /\ rawData \in [ImageFiles -> ImageStates]
    /\ classes \in {ClassesFile(cl) : cl \in PipelineClassLists}
    /\ \/ /\ trainImages = NoSplit.trainImages /\ trainLabels = NoSplit.trainLabels
          /\ valImages = NoSplit.valImages /\ valLabels = NoSplit.valLabels
          /\ datasetYaml = FALSE /\ manifest = NoManifest
       \/ /\ trainImages = StaleSplit.trainImages /\ trainLabels = StaleSplit.trainLabels
          /\ valImages = StaleSplit.valImages /\ valLabels = StaleSplit.valLabels
          /\ datasetYaml = TRUE /\ manifest = EarlierSplit
    /\ weights = {}
    /\ clock = 1
    /\ version = 0 /\ sizeIdx = 1 /\ deployed_models = <<>>
    /\ gameModels = {} /\ writer = <<>>
    /\ configExists = FALSE /\ configIntact = FALSE /\ gameCfg = EmptyGameConfig
    /\ cfgBefore = gameCfg /\ mergedClasses = <<>> /\ cfgFirst = gameCfg /\ nSame = 0
    /\ Unconfigured

\* the process has ended and the pipeline is started again
NextRun ==
    /\ pc \in {"complete", "cancelled", "halted"}
    /\ run < MaxRuns
    /\ run' = run + 1
    /\ skip_to' \in 1..4
    /\ pc' = "begin" /\ step' = 1 /\ success' = TRUE /\ exitCode' = -1 /\ trace' = <<>>
    /\ version' = 0 /\ sizeIdx' = 1 /\ deployed_models' = <<>>
    /\ clock' \in clock..MaxClock
    /\ UNCHANGED <<AUTO_YES, fineTuneMissing, script, argSize, resolved>>
    /\ UNCHANGED <<rawFs, splitFs, weights, exportFs, mergeHist>>

NextRuns ==
    \/ BeginGate
    \/ Dispatch
    \/ AfterStep
    \/ Gate
    \/ CleanCheck
    \/ CleanAct
    \/ SplitCheck
    \/ SplitAct
    \/ TrainCheck
    \/ TrainAct
    \/ ExportCheck
    \/ ExportCopyPt
    \/ ExportSize
    \/ ExportUpdateConfig
    \/ Tick
    \/ NextRun

SpecRuns == InitRuns /\ [][NextRuns]_vars

(***************************************************************************)
(* Reading the trace.                                                      *)
(***************************************************************************)
Has(e) == \E i \in DOMAIN trace : trace[i] = e

Terminated == pc \in {"complete", "cancelled", "halted"}

\* the places of trace where a step function was called
CallsAt == {i \in DOMAIN trace : trace[i].ev = "call"}

\* the places of trace where a step function returned False
FailuresAt == {i \in DOMAIN trace : trace[i].ev = "return" /\ ~trace[i].ok}

\* the places of trace where a step's gate was answered no
DeclinesAt == {i \in DOMAIN trace : trace[i].ev = "prompt" /\ trace[i].n >= 1 /\ ~trace[i].ok}

(***************************************************************************)
(* C1. Once a step function has returned False, the only thing the run     *)
(* still does is to print "Pipeline failed at step N" for that step and    *)
(* exit: no step function is called after the failure, and none of a later *)
(* step at any time.                                                       *)
(***************************************************************************)
C1_FailureHalts ==
    \A i \in FailuresAt :
        /\ \A j \in CallsAt : j < i /\ trace[j].n <= trace[i].n
        /\ \/ pc = "returned" /\ i = Len(trace) /\ step = trace[i].n
           \/ /\ pc = "halted"
              /\ i = Len(trace) - 1
              /\ trace[Len(trace)] = Failed(trace[i].n)
              /\ StepName(trace[i].n) \in trace[Len(trace)].names

\* Split failed after Clean had run: the run halted naming Split
C1_Witness ==
    /\ pc = "halted"
    /\ Has(Returned(1, TRUE))
    /\ Has(Returned(2, FALSE))
    /\ Has(Failed(2))

(***************************************************************************)
(* C2. With skip-to = k nothing of a step below k happens (no call, no     *)
(* prompt, no error, no return), the first step function called is that of *)
(* step k, and a run that went past the begin gate to its end called it.   *)
(***************************************************************************)
C2_SkipTo ==
    /\ \A i \in DOMAIN trace : trace[i].n = 0 \/ trace[i].n >= skip_to
    /\ \A i \in CallsAt : (\A j \in CallsAt : i <= j) => trace[i].n = skip_to
    /\ pc \in {"check", "gate", "act", "export_loop", "returned"} => step >= skip_to
    /\ pc \in {"complete", "halted"} => Has(Called(skip_to))

\* a run started at Train that went on to Export
C2_Witness ==
    /\ skip_to = 3
    /\ Has(Called(3))
    /\ Has(Called(4))
    /\ pc = "complete"

(***************************************************************************)
(* C3. A step whose gate is answered no returns True at once; the run is   *)
(* not halted for that step, and the next thing it does is to call the     *)
(* next step's function (after Export's gate: to complete).                *)
(***************************************************************************)
C3_DeclinedGoesOn ==
    \A i \in DeclinesAt :
        LET n == trace[i].n
        IN  /\ i < Len(trace) /\ trace[i + 1] = Returned(n, TRUE)
            /\ ~Has(Failed(n))
            /\ ~Has(Engine(n))
            /\ n < 4 /\ i + 2 <= Len(trace) => trace[i + 2] = Called(n + 1)
            /\ n < 4 /\ Terminated => i + 2 <= Len(trace)
            /\ n = 4 => pc \in {"returned", "dispatch", "complete"}

\* Train was declined and Export was still called
C3_Witness ==
    /\ Has(Prompted(3, FALSE, TRUE))
    /\ Has(Called(4))
    /\ Has(Prompted(1, FALSE, TRUE))
    /\ Has(Called(2))

(***************************************************************************)
(* C4. With --auto-yes every prompt returns True without reading the       *)
(* input: the run is never cancelled, no step returns because of a gate,   *)
(* and no prompt is shown again.                                           *)
(***************************************************************************)
C4_AutoYesProceeds ==
    AUTO_YES =>
        /\ \A i \in DOMAIN trace :
            trace[i].ev = "prompt" => trace[i].ok /\ ~trace[i].input
        /\ pc # "cancelled"
        /\ ~ENABLED Reprompt

\* all five gates were passed in an automated run
C4_Witness ==
    /\ AUTO_YES
    /\ \A n \in 0..4 : Has(Prompted(n, TRUE, FALSE))
    /\ pc = "complete"

C6_TrainWithoutYaml ==
    skip_to = 3 /\ ~datasetYaml =>
        /\ \A i \in DOMAIN trace :
            /\ trace[i].ev # "engine"
            /\ trace[i].ev = "prompt" => trace[i].n = 0
            /\ trace[i].ev = "call" =>
                /\ trace[i].n = 3
                /\ IF i = Len(trace)
                   THEN pc = "check"
                   ELSE /\ i + 2 <= Len(trace)
                        /\ trace[i + 1] = Error(3, {"dataset.yaml"})
                        /\ trace[i + 2] = Returned(3, FALSE)
        /\ pc \notin {"gate", "act", "export_loop", "complete"}
        /\ step # 4

\* such a run halted at Train
C6_Witness ==
    /\ skip_to = 3 /\ ~datasetYaml
    /\ pc = "halted"
    /\ Has(Failed(3))

(***************************************************************************)
(* C7. As the spec has it: when Export starts with neither best.pt nor     *)
(* last.pt, it returns False with an error that names both files, without  *)
(* invoking the engine or writing to GAME_MODELS_DIR.                      *)
(***************************************************************************)
C7_NamesBothFiles ==
    step = 4 /\ pc \in {"returned", "halted"} /\ "best.pt" \notin weights /\ "last.pt" \notin weights =>
        /\ ~success
        /\ \E i \in DOMAIN trace :
            /\ trace[i].ev = "error" /\ trace[i].n = 4
            /\ {"best.pt", "last.pt"} \subseteq trace[i].names
        /\ ~Has(Engine(4))
        /\ gameModels = {}

(***************************************************************************)
(* C7, amended. When Export starts with neither best.pt nor last.pt, it    *)
(* returns False right after its call with an error that names the weights *)
(* folder in which both were looked for (not the two files): its gate is   *)
(* not shown, the engine is not invoked, and nothing is written to         *)
(* GAME_MODELS_DIR, game_config.json included.                             *)
(***************************************************************************)
C7_MissingWeights ==
    step = 4 /\ "best.pt" \notin weights /\ "last.pt" \notin weights =>
        /\ pc \notin {"gate", "act", "export_loop"}
        /\ ~Has(Prompted(4, TRUE, TRUE)) /\ ~Has(Prompted(4, TRUE, FALSE))
        /\ ~Has(Engine(4))
        /\ gameModels = {}
        /\ gameCfg = cfgBefore /\ nSame = 0
        /\ version = 0
        /\ pc \in {"returned", "halted"} =>
            /\ ~success
            /\ \E i \in DOMAIN trace :
                /\ trace[i] = Called(4)
                /\ i + 2 <= Len(trace)
                /\ trace[i + 1] = Error(4, {"weights"})
                /\ trace[i + 2] = Returned(4, FALSE)

\* a run that trained nothing (Train declined) and halted at Export
C7_Witness ==
    /\ pc = "halted"
    /\ weights = {}
    /\ Has(Prompted(3, FALSE, TRUE))
    /\ Has(Error(4, {"weights"}))
    /\ Has(Failed(4))

(***************************************************************************)
(* Reading a game_config.json.                                             *)
(***************************************************************************)
Count(seq, x) == Cardinality({i \in DOMAIN seq : seq[i] = x})

IsPrefix(before, after) ==
    Len(before) <= Len(after) /\ SubSeq(after, 1, Len(before)) = before

Added(before, after) == SubSeq(after, Len(before) + 1, Len(after))

NamesOf(labels) == [i \in DOMAIN labels |-> labels[i].name]

TierKeys == {"primaryLabels", "secondaryLabels", "tertiaryLabels"}

TiersOf(cfg, name) == {t \in TierKeys : name \in Range(cfg[t])}

TiersDisjoint(cfg) == \A name \in ClassNameSet : Cardinality(TiersOf(cfg, name)) <= 1

ListsOf(cfg) == <<cfg.labels, cfg.primaryLabels, cfg.secondaryLabels, cfg.tertiaryLabels>>

C9_MergeIdempotent == nSame >= 1 => ListsOf(gameCfg) = ListsOf(cfgFirst)

\* two exports with the class list crate, ammo, the first of which added
\* both names
C9_Witness ==
    /\ nSame >= 2
    /\ mergedClasses = <<"crate", "ammo">>
    /\ gameCfg.labels = <<LabelEntry("crate", ""), LabelEntry("ammo", "")>>
    /\ gameCfg.primaryLabels = <<"crate", "ammo">>

(***************************************************************************)
(* C10. An export that finds the three tier lists pairwise disjoint leaves *)
(* them pairwise disjoint, with every name of its class list in exactly    *)
(* one of them; so it is after any number of exports with any class lists. *)
(***************************************************************************)
C10_TiersStayDisjoint ==
    TiersDisjoint(cfgBefore) =>
        /\ TiersDisjoint(gameCfg)
        /\ nSame >= 1 =>
            \A name \in Range(mergedClasses) : Cardinality(TiersOf(gameCfg, name)) = 1

\* "ammo" was in the tertiary tier and "crate" in none before an export with
\* both in the class list, which came after an export with another class list
C10_Witness ==
    /\ nSame >= 1
    /\ TiersDisjoint(cfgBefore)
    /\ mergedClasses = <<"ammo", "crate">>
    /\ cfgBefore.tertiaryLabels = <<"ammo">>
    /\ TiersOf(cfgBefore, "crate") = {}
    /\ TiersOf(gameCfg, "crate") = {"primaryLabels"}
    /\ TiersOf(gameCfg, "ammo") = {"tertiaryLabels"}
    /\ "labels" \in cfgBefore.keys /\ Len(cfgBefore.labels) >= 2

(***************************************************************************)
(* Reading what an export left.                                            *)
(***************************************************************************)
\* the places of trace where the engine was invoked by the export
EnginesAt == {i \in DOMAIN trace : trace[i] = Engine(4)}

\* the files of GAME_MODELS_DIR that this invocation wrote
WrittenByRun == {f \in gameModels : writer[f] = run}

\* the export of this invocation came through the update of an existing
\* game_config.json
ExportedIntoDocument ==
    /\ configExists
    /\ \/ script = "pipeline" /\ Has(Engine(4)) /\ Has(Returned(4, TRUE))
       \/ script = "export_model" /\ (pc = "sa_save" \/ Has(Returned(4, TRUE)))

(***************************************************************************)
(* C11. Once an export (the pipeline's or export_model.py's) has updated   *)
(* an existing game_config.json, modelFile is the name of the .onnx file   *)
(* of this run for size 640 if the run exported size 640, and else the     *)
(* name of the first .onnx file the run deployed.                          *)
(***************************************************************************)
C11_ModelFileIsCanonical ==
    ExportedIntoDocument =>
        LET sizes == {deployed_models[i].size : i \in DOMAIN deployed_models}
        IN  /\ deployed_models # <<>>
            /\ gameCfg.modelFile =
                IF 640 \in sizes
                THEN ArtifactName(version, 640)
                ELSE ArtifactName(version, deployed_models[1].size)
            /\ [version |-> version, size |-> gameCfg.modelFile.size, ext |-> "onnx"]
                   \in gameModels

\* export_model.py --size 1440 has ended: no file of size 640, and modelFile
\* names the 1440 file
C11_Witness ==
    /\ script = "export_model" /\ argSize = 1440
    /\ pc = "sa_done" /\ exitCode = 0
    /\ configExists
    /\ gameCfg.modelFile = ArtifactName(version, 1440)

(***************************************************************************)
(* C12, as the claim has it. Every file an export invocation writes into   *)
(* GAME_MODELS_DIR (.onnx, .txt and the copy of the weights) has the one   *)
(* version stamp of the invocation in its name, and the stamp is taken     *)
(* before the engine exports the first size.                               *)
(***************************************************************************)
C12_AllCarryStamp ==
    /\ \A f \in WrittenByRun : f.version = version
    /\ Has(Engine(4)) => version >= 1

(***************************************************************************)
(* C12, as the code has it. Every file the pipeline's Export step writes   *)
(* into GAME_MODELS_DIR has the one version stamp of the invocation in its *)
(* name, the copy of the weights too; export_model.py stamps the .onnx and *)
(* .txt file of every size alike and saves the weights under the fixed     *)
(* name best.pt. The stamp is taken before the engine exports the first    *)
(* size.                                                                   *)
(***************************************************************************)
C12_StampShared ==
    /\ \A f \in WrittenByRun :
        \/ f.version = version
        \/ script = "export_model" /\ f = BestPtCopy
    /\ \A f \in WrittenByRun : f.ext \in {"onnx", "txt"} => f.version = version
    /\ Has(Engine(4)) => version >= 1

\* the pipeline has ended, the clock having gone on after the stamp was
\* taken: the weights copy and the two files of each size were written
C12_Witness ==
    /\ script = "pipeline" /\ pc = "complete"
    /\ clock > version
    /\ WrittenByRun =
        {Artifact(version, 0, "pt")}
        \cup {Artifact(version, sz, ext) : sz \in {640, 1440}, ext \in {"onnx", "txt"}}

(***************************************************************************)
(* C13. No export invocation writes over a file that an earlier invocation *)
(* wrote into GAME_MODELS_DIR: each file there stays the file of the       *)
(* invocation that wrote it.                                               *)
(***************************************************************************)
C13_ArtifactsImmutable ==
    [][\A f \in gameModels : f \in gameModels' /\ writer'[f] = writer[f]]_vars

(***************************************************************************)
(* C14. When the engine's export or the copy of its file fails for one     *)
(* size, the engine is not invoked for a later size, step_export returns   *)
(* False, and the weights copy and the files of the sizes deployed before  *)
(* are still in GAME_MODELS_DIR.                                           *)
(***************************************************************************)
C14_FailFastNoRollback ==
    LET k == Cardinality(EnginesAt)
    IN  \* the engine was invoked for a size that was not deployed
        k > Len(deployed_models) =>
            /\ k = Len(deployed_models) + 1
            /\ \E i \in EnginesAt :
                /\ \A j \in EnginesAt : j <= i
                /\ i + 2 <= Len(trace)
                /\ trace[i + 1].ev = "error"
                /\ trace[i + 2] = Returned(4, FALSE)
                /\ \A j \in (i + 3)..Len(trace) : trace[j] = Failed(4)
            /\ ~Has(Returned(4, TRUE))
            /\ pc \in {"returned", "halted"} /\ ~success
            /\ Artifact(version, 0, "pt") \in gameModels
            /\ \A j \in 1..(k - 1) :
                /\ Artifact(version, export_sizes[j], "onnx") \in gameModels
                /\ Artifact(version, export_sizes[j], "txt") \in gameModels

\* the export failed at the second size and the pipeline halted: the files of
\* the first size are there
C14_Witness ==
    /\ pc = "halted"
    /\ Cardinality(EnginesAt) = 2
    /\ Len(deployed_models) = 1
    /\ Has(Returned(4, FALSE))
    /\ {Artifact(version, 0, "pt"), Artifact(version, 640, "onnx"),
        Artifact(version, 640, "txt")} \subseteq gameModels

(***************************************************************************)
(* C15. When game_config.json does not exist once the sizes are exported,  *)
(* step_export prints a warning, does not create the file, has deployed    *)
(* the weights copy and the files of both sizes, and returns True, so the  *)
(* pipeline goes on to its end with status 0.                              *)
(***************************************************************************)
C15_MissingDocumentSkipped ==
    /\ Has(Warning(4, {"game_config.json"})) =>
        /\ ~configExists
        /\ gameCfg = cfgBefore /\ nSame = 0
        /\ Has(Returned(4, TRUE)) /\ ~Has(Returned(4, FALSE))
        /\ {Artifact(version, 0, "pt")}
           \cup {Artifact(version, sz, ext) : sz \in {640, 1440}, ext \in {"onnx", "txt"}}
               \subseteq gameModels
        /\ pc \in {"returned", "dispatch", "complete"}
        /\ pc = "returned" => success
        /\ pc = "complete" => exitCode = 0
    /\ ~configExists /\ Len(deployed_models) = Len(export_sizes) /\ pc # "export_loop" =>
        Has(Warning(4, {"game_config.json"}))

\* a whole pipeline run that ended without a game_config.json
C15_Witness ==
    /\ pc = "complete" /\ exitCode = 0
    /\ Has(Called(1)) /\ Has(Engine(3))
    /\ ~configExists
    /\ Has(Warning(4, {"game_config.json"}))
    /\ Cardinality(gameModels) = 5

(***************************************************************************)
(* C16. Whatever happens while game_config.json is rewritten, the file     *)
(* holds a complete document afterwards: the one from before the merge or  *)
(* the merged one.                                                         *)
(***************************************************************************)
C16_AtomicRewrite ==
    [][configExists /\ configIntact =>
        /\ configIntact'
        /\ \/ gameCfg' = gameCfg
           \/ gameCfg' = MergeGameConfig(gameCfg, classes.names, DefaultModel(deployed_models))]_vars

(***************************************************************************)
(* Reading what a split left.                                              *)
(***************************************************************************)
\* the try block of step_split has just returned True
SplitSucceeded == pc = "returned" /\ step = 2 /\ success

\* the images of IMAGES_DIR that have a non-empty annotation file
LabeledImages ==
    {f \in RawImages : f.ext \in {"jpg", "jpeg", "png"} /\ rawData[f] = "labeled"}

(***************************************************************************)
(* C17. After every split the images of train/images and those of          *)
(* val/images are disjoint, and together they are the images of IMAGES_DIR *)
(* that have a non-empty annotation file.                                  *)
(***************************************************************************)
C17_SplitIsPartition ==
    SplitSucceeded =>
        /\ trainImages \cap valImages = {}
        /\ trainImages \cup valImages = LabeledImages

\* three labeled images were split: two for training, one for validation
C17_Witness ==
    /\ SplitSucceeded
    /\ Cardinality(LabeledImages) = 3
    /\ Cardinality(trainImages) = 2
    /\ Cardinality(valImages) = 1

(***************************************************************************)
(* C18. After a split of n labeled images, train/images holds              *)
(* floor(n * 0.8) images and val/images the n - floor(n * 0.8) others; for *)
(* n = 100 that is 80 and 20.                                              *)
(***************************************************************************)
C18_SplitSizes ==
    /\ SplitSucceeded =>
        LET n == Cardinality(LabeledImages)
            floor == CHOOSE k \in 0..n : 10 * k <= 8 * n /\ 8 * n < 10 * (k + 1)
        IN  /\ Cardinality(trainImages) = floor
            /\ Cardinality(valImages) = n - floor
    /\ SplitIdx(100) = 80
    /\ 100 - SplitIdx(100) = 20

\* two labeled images among three: floor(1.6) = 1 for training, 1 for
\* validation
C18_Witness ==
    /\ SplitSucceeded
    /\ Cardinality(RawImages) = 3
    /\ Cardinality(LabeledImages) = 2
    /\ Cardinality(trainImages) = 1
    /\ Cardinality(valImages) = 1
    /\ run = 1

(***************************************************************************)
(* C19. A split, whether it succeeds or fails midway, puts into the split  *)
(* folders only images that have a non-empty annotation file, and only the *)
(* annotation files of such images; after a successful split nothing else  *)
(* is there.                                                               *)
(***************************************************************************)
C19_UnlabeledNeverSplit ==
    [][pc = "act" /\ step = 2 =>
        /\ \A f \in (trainImages' \cup valImages') :
            \/ f \in LabeledImages
            \/ ~success' /\ f \in (trainImages \cup valImages)
        /\ \A l \in (trainLabels' \cup valLabels') :
            \/ \E f \in LabeledImages : l = LabelOf(f)
            \/ ~success' /\ l \in (trainLabels \cup valLabels)]_vars

\* a split succeeded in a folder that holds a labeled image, an image with an
\* all-whitespace annotation file and an image with none
C19_Witness ==
    /\ SplitSucceeded
    /\ \E f \in RawImages : rawData[f] = "blank"
    /\ \E f \in RawImages : rawData[f] = "unlabeled"
    /\ LabeledImages # {}
    /\ trainImages \cup valImages = LabeledImages

(***************************************************************************)
(* C20. A split that succeeds after a split that succeeded on the same     *)
(* IMAGES_DIR and LABELS_DIR leaves the same images in train/images and    *)
(* the same in val/images, in whatever order the folder is enumerated.     *)
(***************************************************************************)
C20_SameSplitAgain ==
    [][/\ pc = "act" /\ step = 2
       /\ trace # <<>> /\ trace[Len(trace)] = Returned(2, TRUE)
       /\ success'
       => trainImages' = trainImages /\ valImages' = valImages]_vars

(***************************************************************************)
(* Reading the lists step_split computed.                                  *)
(***************************************************************************)
\* the files the lists of `m` name for one split folder
ManifestFiles(m, split, kind) ==
    LET images == IF split = "train" THEN m.train_images ELSE m.val_images
    IN  IF kind = "image" THEN images ELSE {LabelOf(f) : f \in images}

\* the four split folders hold the files of the lists of `m`, and no other
HoldsExactly(tI, tL, vI, vL, m) ==
    /\ tI = ManifestFiles(m, "train", "image")
    /\ tL = ManifestFiles(m, "train", "label")
    /\ vI = ManifestFiles(m, "val", "image")
    /\ vL = ManifestFiles(m, "val", "label")

(***************************************************************************)
(* C21. A split that succeeds leaves in train/images, train/labels,        *)
(* val/images and val/labels the files of the lists it computed and no     *)
(* other, whatever the folders held; and when it follows a split that      *)
(* succeeded and computes the same lists, the four folders hold what they  *)
(* held.                                                                   *)
(***************************************************************************)
C21_ExactlyTheManifest ==
    [][pc = "act" /\ step = 2 /\ success' =>
        /\ HoldsExactly(trainImages', trainLabels', valImages', valLabels', manifest')
        /\ (/\ trace # <<>> /\ trace[Len(trace)] = Returned(2, TRUE)
            /\ manifest' = manifest)
           => /\ trainImages' = trainImages /\ trainLabels' = trainLabels
              /\ valImages' = valImages /\ valLabels' = valLabels]_vars

\* a second split succeeded with the lists of the first, in folders that
\* cannot have held a.jpg at the start: it has no annotation file
C21_Witness ==
    /\ SplitSucceeded /\ run = 2
    /\ Len(trace) = 2 /\ trace[1] = Returned(2, TRUE)
    /\ rawData[File("a", "jpg")] = "unlabeled"
    /\ Cardinality(manifest.train_images) = 1 /\ Cardinality(manifest.val_images) = 1
    /\ HoldsExactly(trainImages, trainLabels, valImages, valLabels, manifest)

(***************************************************************************)
(* C22. When no image of IMAGES_DIR has a non-empty annotation file, the   *)
(* try block of step_split returns False, and it leaves train/images,      *)
(* train/labels, val/images, val/labels and dataset.yaml as they were.     *)
(***************************************************************************)
C22_EmptySplitTouchesNothing ==
    [][pc = "act" /\ step = 2 /\ LabeledImages = {} =>
        /\ pc' = "returned" /\ ~success'
        /\ trace' = trace \o <<Error(2, {}), Returned(2, FALSE)>>
        /\ trainImages' = trainImages /\ trainLabels' = trainLabels
        /\ valImages' = valImages /\ valLabels' = valLabels
        /\ datasetYaml' = datasetYaml]_vars

\* the split was confirmed and failed for want of labeled images, the files
\* of an earlier split and its dataset.yaml still there
C22_Witness ==
    /\ pc = "returned" /\ step = 2 /\ ~success
    /\ LabeledImages = {}
    /\ \E i \in DOMAIN trace : trace[i].ev = "prompt" /\ trace[i].n = 2 /\ trace[i].ok
    /\ trainImages = StaleSplit.trainImages /\ trainLabels = StaleSplit.trainLabels
    /\ valImages = StaleSplit.valImages /\ valLabels = StaleSplit.valLabels
    /\ datasetYaml

(***************************************************************************)
(* C23. While classes.txt is missing, no step of step_split or step_export *)
(* changes a file: the four split folders and dataset.yaml stay as they    *)
(* are, nothing is written into GAME_MODELS_DIR, game_config.json stays as *)
(* it is; and when the step function returns from its checks or its try    *)
(* block it returns False.                                                 *)
(***************************************************************************)
C23_MissingClassListWritesNothing ==
    [][~classes.exists /\ step \in {2, 4} /\ pc \in {"check", "act", "export_loop"} =>
        /\ trainImages' = trainImages /\ trainLabels' = trainLabels
        /\ valImages' = valImages /\ valLabels' = valLabels
        /\ datasetYaml' = datasetYaml
        /\ gameModels' = gameModels /\ writer' = writer
        /\ gameCfg' = gameCfg /\ configIntact' = configIntact
        /\ pc' = "returned" => ~success']_vars

(***************************************************************************)
(* Reading the errors of a run.                                            *)
(***************************************************************************)
\* the places of trace where print_error was called in the try block of a
\* step, that is after the gate of the step was answered yes
RaisedAt ==
    {i \in DOMAIN trace :
        /\ trace[i].ev = "error"
        /\ \E j \in 1..(i - 1) :
            trace[j].ev = "prompt" /\ trace[j].n = trace[i].n /\ trace[j].ok}

(***************************************************************************)
(* C24. An exception raised in the try block of a step (by model.train,    *)
(* by model.export, by rmtree, copy2 or a file write) makes the step       *)
(* function return False right after the error is printed: the step never  *)
(* returns True, main prints "Pipeline failed" for that step, no other     *)
(* step function is called, and the process ends with a status that is not *)
(* 0.                                                                      *)
(***************************************************************************)
C24_ErrorsFailTheStep ==
    \A i \in RaisedAt :
        LET n == trace[i].n
        IN  /\ i < Len(trace)
            /\ trace[i + 1] = Returned(n, FALSE)
            /\ \A j \in (i + 2)..Len(trace) : trace[j] = Failed(n)
            /\ ~Has(Returned(n, TRUE))
            /\ \A m \in (n + 1)..4 : ~Has(Called(m))
            /\ step = n /\ ~success
            /\ pc \in {"returned", "halted"}
            /\ pc = "halted" => Has(Failed(n)) /\ exitCode = FailureExitStatus /\ exitCode # 0

\* model.train raised in a run that had made a split before: the run halted
\* at step 3 with status 1
C24_Witness ==
    /\ pc = "halted" /\ step = 3 /\ exitCode = 1
    /\ Has(Returned(2, TRUE))
    /\ \E i \in RaisedAt : trace[i] = Error(3, {}) /\ trace[i - 1] = Engine(3)
    /\ trace[Len(trace)] = Failed(3)

(***************************************************************************)
(* C25. In a pipeline run the step functions are called in the order       *)
(* Clean, Split, Train, Export, each at most once, and one is called only  *)
(* after the one called before it has returned; whatever a step does (its  *)
(* gate, its errors, its engine call, its return) lies between its call    *)
(* and the next call, with nothing of another step in between; model.train *)
(* is called at most once and only inside step_train.                      *)
(***************************************************************************)
C25_StepsInOrder ==
    /\ \A i \in CallsAt : \A j \in CallsAt :
        i < j =>
            /\ trace[i].n < trace[j].n
            /\ \E k \in (i + 1)..(j - 1) : trace[k].ev = "return" /\ trace[k].n = trace[i].n
    /\ \A k \in DOMAIN trace :
        trace[k].ev \in {"prompt", "error", "warning", "engine", "return"} /\ trace[k].n >= 1 =>
            \E c \in CallsAt :
                /\ c < k
                /\ \A m \in c..k : trace[m].n = trace[k].n
                /\ \A m \in (c + 1)..(k - 1) : trace[m].ev # "return"
    /\ Cardinality({k \in DOMAIN trace : trace[k] = Engine(3)}) <= 1
    /\ pc \in {"check", "gate", "act", "export_loop"} =>
        /\ trace # <<>>
        /\ \E c \in CallsAt :
            /\ trace[c] = Called(step)
            /\ \A m \in c..Len(trace) : trace[m].n = step /\ trace[m].ev # "return"

\* the four steps ran, each to its return, and the run is complete
C25_Witness ==
    /\ pc = "complete"
    /\ \A n \in 1..4 : Has(Called(n)) /\ Has(Returned(n, TRUE))
    /\ Has(Engine(3)) /\ Has(Engine(4))
    /\ \E i \in DOMAIN trace : \E j \in DOMAIN trace :
        i < j /\ trace[i] = Returned(3, TRUE) /\ trace[j] = Called(4)

(***************************************************************************)
(* Reading the configuration.                                              *)
(***************************************************************************)
\* the root derived from the identifier, for the training data and for the
\* output
DerivedTrainingData(id) == TRAINING_TOOL_DIR \o <<"training_data", id>>

DerivedGameModels(id) == PROJECT_ROOT \o <<"GameModels", id>>

\* a path that is neither None nor the empty string
NonEmptyPath(text) == text \notin {None, ""}

(***************************************************************************)
(* C26. After any calls of apply_config_overrides, each field of the       *)
(* runtime configuration holds the value given last for it, or its         *)
(* compiled-in default if none was ever given; GAME_ID, MODEL_NAME and     *)
(* BASE_MODEL hold the same as their fields; and a call that does not give *)
(* a field leaves the field as it was.                                     *)
(***************************************************************************)
C26_LastSuppliedOrDefault ==
    /\ [](/\ \A f \in ConfigFields :
                runtime_config[f] = IF supplied[f] # None THEN supplied[f] ELSE RuntimeConfig[f]
          /\ config.GAME_ID = runtime_config.game_id
          /\ config.MODEL_NAME = runtime_config.model_name
          /\ config.BASE_MODEL = runtime_config.base_model)
    /\ [][\A f \in ConfigFields :
            supplied'[f] = supplied[f] => runtime_config'[f] = runtime_config[f]]_vars

\* the identifier was given and is not the default, the training-data path
\* was given as the empty string, the model name was never given
C26_Witness ==
    /\ pc = "configure"
    /\ supplied.game_id = "no_mans_sky" /\ runtime_config.game_id = "no_mans_sky"
    /\ supplied.training_data_path = "" /\ runtime_config.training_data_path = ""
    /\ supplied.model_name = None /\ runtime_config.model_name = "ArcRaidersModel"
    /\ supplied.game_models_path = None /\ runtime_config.game_models_path = None

(***************************************************************************)
(* C27. While no training-data path was ever given, TRAINING_DATA_DIR is   *)
(* the root derived from the current GAME_ID, and likewise GAME_MODELS_DIR *)
(* while no output path was ever given; once a path was given for a root,  *)
(* a later call that gives no other path for it leaves that root as it is, *)
(* whatever identifier the call gives.                                     *)
(***************************************************************************)
C27_OverriddenRootStays ==
    /\ [](/\ supplied.training_data_path = None =>
                config.TRAINING_DATA_DIR = DerivedTrainingData(config.GAME_ID)
          /\ supplied.game_models_path = None =>
                config.GAME_MODELS_DIR = DerivedGameModels(config.GAME_ID))
    /\ [][/\ (/\ supplied.training_data_path # None
              /\ supplied'.training_data_path = supplied.training_data_path)
             => config'.TRAINING_DATA_DIR = config.TRAINING_DATA_DIR
          /\ (/\ supplied.game_models_path # None
              /\ supplied'.game_models_path = supplied.game_models_path)
             => config'.GAME_MODELS_DIR = config.GAME_MODELS_DIR]_vars

(***************************************************************************)
(* C27, as the code has it.  A root is overridden while its field of the   *)
(* runtime configuration holds a path that is not empty: it then is that   *)
(* path, and a later call that gives no other path for it leaves it as it  *)
(* is, whatever identifier the call gives.  A root whose field is None or  *)
(* the empty string (given or not) is the root derived from the current    *)
(* GAME_ID, each root apart from the other.                                *)
(***************************************************************************)
C27_NonEmptyOverrideStays ==
    /\ [](/\ config.TRAINING_DATA_DIR =
                IF NonEmptyPath(runtime_config.training_data_path)
                THEN PathParts(runtime_config.training_data_path)
                ELSE DerivedTrainingData(config.GAME_ID)
          /\ config.GAME_MODELS_DIR =
                IF NonEmptyPath(runtime_config.game_models_path)
                THEN PathParts(runtime_config.game_models_path)
                ELSE DerivedGameModels(config.GAME_ID)
          /\ config.GAME_ID = runtime_config.game_id)
    /\ [][/\ (/\ NonEmptyPath(supplied.training_data_path)
              /\ supplied'.training_data_path = supplied.training_data_path)
             => config'.TRAINING_DATA_DIR = config.TRAINING_DATA_DIR
          /\ (/\ NonEmptyPath(supplied.game_models_path)
              /\ supplied'.game_models_path = supplied.game_models_path)
             => config'.GAME_MODELS_DIR = config.GAME_MODELS_DIR]_vars

\* the training-data root was overridden and another identifier given: the
\* root is the path given, the output root follows the identifier
C27_Witness ==
    /\ pc = "configure"
    /\ supplied.training_data_path = "D:/td"
    /\ supplied.game_models_path = None
    /\ supplied.game_id = "no_mans_sky"
    /\ config.TRAINING_DATA_DIR = <<"D:", "td">>
    /\ config.GAME_MODELS_DIR = DerivedGameModels("no_mans_sky")

C29_OnlyGivenKeysChange ==
    /\ [](/\ DOMAIN TRAINING_CONFIG = DOMAIN TrainingDefaults
          /\ \A k \in DOMAIN TRAINING_CONFIG :
                k \notin TrainingOptions \/ parsed[k] = None \/ pc # "configured"
                    => TRAINING_CONFIG[k] = TrainingDefaults[k])
    /\ [][\A k \in DOMAIN TRAINING_CONFIG :
            IF pc = "apply_args" /\ k \in TrainingOptions /\ parsed[k] # None
            THEN TRAINING_CONFIG'[k] = parsed[k]
            ELSE TRAINING_CONFIG'[k] = TRAINING_CONFIG[k]]_vars

\* --no-cache and --epochs 300 were given: cache and epochs changed, amp
\* and the other keys hold their defaults
C29_Witness ==
    /\ pc = "configured"
    /\ parsed.cache = "False" /\ TRAINING_CONFIG.cache = "False"
    /\ parsed.epochs = "300" /\ TRAINING_CONFIG.epochs = "300"
    /\ parsed.amp = None /\ TRAINING_CONFIG.amp = "True"
    /\ \A k \in DOMAIN TRAINING_CONFIG \ {"cache", "epochs"} :
        TRAINING_CONFIG[k] = TrainingDefaults[k]

(***************************************************************************)
(* C30. No step of a pipeline run changes IMAGES_DIR or LABELS_DIR: every  *)
(* image, every annotation file and classes.txt stay as they are.  The try *)
(* block of step_clean changes nothing but the train and val trees, which  *)
(* are empty when it returns True: dataset.yaml, the weights and           *)
(* GAME_MODELS_DIR are as before.                                          *)
(***************************************************************************)
C30_RawDataUntouched ==
    [][/\ rawData' = rawData
       /\ classes' = classes
       /\ pc = "act" /\ step = 1 =>
            /\ datasetYaml' = datasetYaml
            /\ weights' = weights
            /\ gameModels' = gameModels /\ gameCfg' = gameCfg
            /\ configExists' = configExists /\ configIntact' = configIntact
            /\ trainImages' \subseteq trainImages /\ trainLabels' \subseteq trainLabels
            /\ valImages' \subseteq valImages /\ valLabels' \subseteq valLabels
            /\ success' =>
                /\ trainImages' = {} /\ trainLabels' = {}
                /\ valImages' = {} /\ valLabels' = {}]_vars

\* a run cleaned the folders of an earlier split, split a labeled image anew,
\* trained and exported
C30_Witness ==
    /\ pc = "complete"
    /\ \E i \in DOMAIN trace : trace[i].ev = "prompt" /\ trace[i].n = 1 /\ trace[i].ok
    /\ \A n \in 1..4 : Has(Returned(n, TRUE))
    /\ Has(Engine(3)) /\ Has(Engine(4))
    /\ LabeledImages # {}
    /\ trainImages \cup valImages = LabeledImages

(***************************************************************************)
(* C31. From the call of a step function to the answer at its confirmation *)
(* gate, and so in a step whose gate is answered no, nothing on disk is    *)
(* changed: train/images, train/labels, val/images, val/labels,            *)
(* dataset.yaml, the files of GAME_MODELS_DIR and game_config.json are,    *)
(* when the step function returns, what they were when it was called.      *)
(***************************************************************************)
C31_DeclinedChangesNothing ==
    [][(pc = "check" \/ pc = "gate") =>
        /\ trainImages' = trainImages /\ trainLabels' = trainLabels
        /\ valImages' = valImages /\ valLabels' = valLabels
        /\ datasetYaml' = datasetYaml
        /\ gameModels' = gameModels
        /\ configExists' = configExists /\ configIntact' = configIntact
        /\ gameCfg' = gameCfg]_vars

\* the gate of every step was answered no by the user: the run is complete,
\* the files of the earlier split, dataset.yaml and game_config.json are
\* there as before and nothing was deployed
C31_Witness ==
    /\ pc = "complete"
    /\ \A n \in 1..4 : Has(Prompted(n, FALSE, TRUE)) /\ Has(Returned(n, TRUE))
    /\ trainImages = StaleSplit.trainImages /\ trainLabels = StaleSplit.trainLabels
    /\ valImages = StaleSplit.valImages /\ valLabels = StaleSplit.valLabels
    /\ datasetYaml
    /\ gameModels = {}
    /\ configExists /\ configIntact /\ gameCfg \in PipelineGameConfigs

(***************************************************************************)
(* Reading an export and game_config.json.                                 *)
(***************************************************************************)
\* the resolutions the invocation was asked for
RequestedSizes == IF script = "pipeline" THEN export_sizes ELSE export_sizes_for(argSize)

\* the invocation is in its loop over the resolutions, or just after it
InExportLoop == pc \in {"export_loop", "sa_loop"}

\* game_config.json is written to: its content changes, or it is cut short
DocumentWritten == gameCfg' # gameCfg \/ configIntact' # configIntact

(***************************************************************************)
(* C32. An export, of the pipeline or of export_model.py, writes to        *)
(* game_config.json only after the loop, when the .onnx and the .txt of    *)
(* every resolution asked for are in GAME_MODELS_DIR under the stamp of    *)
(* the invocation; the modelFile it sets is the name of an .onnx file that *)
(* is in GAME_MODELS_DIR; and an invocation that ends inside the loop      *)
(* leaves game_config.json as it was.                                      *)
(***************************************************************************)
C32_DocumentAfterDeployment ==
    [][/\ DocumentWritten =>
            /\ InExportLoop /\ sizeIdx > Len(RequestedSizes)
            /\ \A i \in DOMAIN RequestedSizes :
                /\ Artifact(version, RequestedSizes[i], "onnx") \in gameModels
                /\ Artifact(version, RequestedSizes[i], "txt") \in gameModels
       /\ gameCfg'.modelFile # gameCfg.modelFile =>
            /\ gameCfg'.modelFile.ext = "onnx"
            /\ gameCfg'.modelFile \in gameModels'
       /\ (/\ InExportLoop /\ sizeIdx <= Len(RequestedSizes)
           /\ pc' \in {"returned", "sa_done"}) =>
            /\ gameCfg' = gameCfg /\ configIntact' = configIntact
            /\ exitCode' = FailureExitStatus \/ ~success']_vars

\* an export had deployed its resolutions and set modelFile; the next one,
\* of export_model.py, deployed the first of its two resolutions and ended
\* in the second round of the loop: modelFile names the file of the first
C32_Witness ==
    /\ run = 2 /\ script = "export_model" /\ argSize = 0
    /\ pc = "sa_done" /\ exitCode = FailureExitStatus
    /\ sizeIdx = 2
    /\ configIntact
    /\ gameCfg.modelFile # OldModelFile
    /\ gameCfg.modelFile \in gameModels
    /\ writer[gameCfg.modelFile] = 1
    /\ \E f \in gameModels : writer[f] = 2 /\ f.ext = "onnx" /\ f # gameCfg.modelFile

\* no name has two entries in labels, and none is named twice in the tier
\* lists taken together
NoDuplicates(cfg) ==
    \A name \in ClassNameSet :
        /\ Count(NamesOf(cfg.labels), name) <= 1
        /\ Count(cfg.primaryLabels, name) + Count(cfg.secondaryLabels, name)
            + Count(cfg.tertiaryLabels, name) <= 1

(***************************************************************************)
(* C33. A merge into a game_config.json in which no name has two label     *)
(* entries and none is named twice in the tier lists leaves such a         *)
(* document, whatever the class list is, a list with a repeated name       *)
(* included.                                                               *)
(***************************************************************************)
C33_MergeAddsNoDuplicates ==
    nSame >= 1 /\ NoDuplicates(cfgBefore) => NoDuplicates(gameCfg)

(***************************************************************************)
(* Paths after overrides.                                                  *)
(***************************************************************************)
\* the path configuration holds for each use once the overrides are applied
PathHeld(use) ==
    CASE use = "weights" -> find_trained_model(config)
      [] use = "artifacts" -> deploy_to_game_models(config)
      [] use = "class_list" -> config.CLASSES_FILE
      [] use = "document" -> config_path(config)
      [] use = "saved_pt" -> target_pt(config)
      [] use = "prerequisite" -> config.DATASET_YAML
      [] use = "data" -> config.DATASET_YAML
      [] use = "output" -> output_dir(config)

\* C34: once export_model.py or train_model.py has applied the overrides of
\* its command line, every path it reads or writes (the weights it looks up,
\* the deployed model and label list, game_config.json, the saved best.pt,
\* dataset.yaml) is the path configuration holds after the overrides.
C34_PathsFollowOverrides ==
    \A use \in DOMAIN used : used[use] = PathHeld(use)

(***************************************************************************)
(* Clean.                                                                  *)
(***************************************************************************)
\* C35: whenever Clean was not declined and reported success, train/ and
\* val/ hold no file, whatever they held before.
C35_CleanLeavesNoFile ==
    pc = "returned" /\ step = 1 /\ success
        /\ ~Has(Prompted(1, FALSE, TRUE)) /\ ~Has(Prompted(1, FALSE, FALSE))
        => trainImages \cup trainLabels \cup valImages \cup valLabels = {}

(***************************************************************************)
(* Train after a split.                                                    *)
(***************************************************************************)
\* train/ and val/ hold what the last split that succeeded copied, all of it
\* and nothing else, and dataset.yaml is there
HoldsCompletedSplit ==
    /\ manifest # NoManifest
    /\ datasetYaml
    /\ trainImages = manifest.train_images
    /\ trainLabels = {LabelOf(f) : f \in manifest.train_images}
    /\ valImages = manifest.val_images
    /\ valLabels = {LabelOf(f) : f \in manifest.val_images}

\* C36: over pipeline runs that follow each other, whenever the checks of
\* Train pass, train/ and val/ hold a completely materialized split and
\* dataset.yaml was written by that split: a split that failed midway
\* leaves nothing Train accepts.
C36_TrainAcceptsOnlyCompletedSplit ==
    pc = "gate" /\ step = 3 => HoldsCompletedSplit

(***************************************************************************)
(* What counts as an image.                                                *)
(***************************************************************************)
\* the files directory.glob("*.ext") yields
Globbed(directory, ext) == {f \in directory : f.ext = ext}

\* step_split, line 175: the files of IMAGES_DIR counted as source images
CountedImages == Globbed(RawImages, "jpg") \cup Globbed(RawImages, "png")

\* get_labeled_images, lines 48-50: the files of IMAGES_DIR that are not
\* passed over for their suffix
CandidateImages == {f \in RawImages : f.ext \in {"jpg", "jpeg", "png"}}

\* C37: the check of Split and the partitioner agree on what an image is:
\* the files the step counts as source images are the candidate images the
\* partitioner enumerates, and the step fails for lack of images exactly
\* when the partitioner has no candidate.
C37_SameImages ==
    pc = "check" /\ step = 2 =>
        /\ CountedImages = CandidateImages
        /\ CountImages(RawImages) = 0 <=> CandidateImages = {}

(***************************************************************************)
(* Annotation files of a split.                                            *)
(***************************************************************************)
\* the labels folder holds one annotation file for each image of the images
\* folder, and nothing else
OnePerImage(images, labels) ==
    /\ labels = {LabelOf(f) : f \in images}
    /\ Cardinality(labels) = Cardinality(images)

\* C38: after a split that succeeded no annotation file is in both
\* train/labels and val/labels, and the labels folder of each split holds
\* exactly one annotation file per image of its images folder.
C38_AnnotationsFollowImages ==
    pc = "returned" /\ step = 2 /\ success =>
        /\ trainLabels \cap valLabels = {}
        /\ OnePerImage(trainImages, trainLabels)
        /\ OnePerImage(valImages, valLabels)

(***************************************************************************)
(* The two exports and game_config.json.                                   *)
(***************************************************************************)
\* two documents have the same modelFile, labels and tier lists
SameDocument(c, d) ==
    /\ c.modelFile = d.modelFile
    /\ c.labels = d.labels
    /\ c.primaryLabels = d.primaryLabels
    /\ c.secondaryLabels = d.secondaryLabels
    /\ c.tertiaryLabels = d.tertiaryLabels

\* C39: export_model.py and the Export step of the pipeline are equivalent
\* on game_config.json: from the same document, class list and resolutions
\* (both sizes, the same stamp) the script leaves the modelFile, the labels
\* and the tier lists the step leaves.
C39_ExportsEquivalent ==
    [][(script = "export_model" /\ argSize = 0 /\ pc = "sa_loop" /\ pc' = "sa_save"
            /\ configExists)
        => SameDocument(gameCfg',
               MergeGameConfig(gameCfg, classes.names, DefaultModel(deployed_models)))]_vars

(***************************************************************************)
(* Termination with --auto-yes.                                            *)
(***************************************************************************)
\* the places of trace where main printed "Pipeline failed at step ..."
FailedAt == {i \in DOMAIN trace : trace[i].ev = "failed"}

\* no prompt_yes_no of the run has called input()
NoInputRead == \A i \in DOMAIN trace : trace[i].ev = "prompt" => ~trace[i].input

\* main printed PIPELINE COMPLETE, or it stopped at one failed step
CompleteOrHalted ==
    \/ pc = "complete" /\ FailedAt = {}
    \/ pc = "halted" /\ Cardinality(FailedAt) = 1

====
